---- MODULE Spec2Model ----
(***************************************************************************)
(* A model of act-api-python's declarative schema engine (act.api.schema), *)
(* the ActBase entities built on it (act.api.base, act.api.obj,            *)
(* act.api.fact) and the name transcoder (act.api.utils).                  *)
(*                                                                         *)
(* Python values are records tagged by k: none, str, num (int and bool),   *)
(* list, dict (an insertion-ordered sequence of <<key, value>>), ent (an   *)
(* entity: its class, its attribute store "data" as an insertion-ordered   *)
(* sequence of <<field, value>>, and its plain instance attributes) and    *)
(* exc (a raised exception, which every operator propagates).              *)
(***************************************************************************)
EXTENDS Integers, Sequences, FiniteSets, TLC

VARIABLES
    e1,     \* the entity under test (None before its construction)
    e2,     \* a second entity of the same class, for comparisons
    last,   \* the last operation, its inputs and its outcome
    broken, \* history: a re-deserialization of e1 raised midway, and none completed since
    heap,          \* the objects that are shared by reference, by address
    rs,            \* an ActResultSet (None before its construction)
    conf,          \* the Config objects, by address
    origin_cache,  \* the lru_cache of origin_map
    fact_cache,    \* the lru_cache of handle_fact
    requests,      \* the requests sent to the backend, oldest first
    output,        \* the lines written to the output file handle, oldest first
    lookups,       \* history: the origin lookups that needed the name map, oldest first
    handled        \* history: the handle_fact calls whose body ran and returned

vars == <<e1, e2, last, broken, heap, rs, conf, origin_cache, fact_cache, requests, output,
          lookups, handled>>
\* What the operations on entities held by value leave alone.
others == <<heap, rs, conf, origin_cache, fact_cache, requests, output, lookups, handled>>

(***************************************************************************)
(* Python values                                                           *)
(***************************************************************************)
None == [k |-> "none"]
Str(s) == [k |-> "str", s |-> s]
Num(n) == [k |-> "num", n |-> n, b |-> FALSE]
Bool(b) == [k |-> "num", n |-> IF b THEN 1 ELSE 0, b |-> TRUE]
List(items) == [k |-> "list", items |-> items]
Dict(items) == [k |-> "dict", items |-> items]
Ent(cls, data, attrs) == [k |-> "ent", cls |-> cls, data |-> data, attrs |-> attrs]
Exc(e) == [k |-> "exc", e |-> e]
\* A reference to the object at address a of the heap.
Ref(a) == [k |-> "ref", a |-> a]
True == Bool(TRUE)
False == Bool(FALSE)

IsExc(v) == v.k = "exc"
IsEnt(v) == v.k = "ent"

\* Insertion-ordered mappings (Python dict): sequences of <<key, value>>.
Has(d, key) == \E i \in 1..Len(d) : d[i][1] = key
Get(d, key) == IF Has(d, key) THEN d[CHOOSE i \in 1..Len(d) : d[i][1] = key][2] ELSE None
Put(d, key, v) ==
    IF Has(d, key)
    THEN [d EXCEPT ![CHOOSE i \in 1..Len(d) : d[i][1] = key] = <<key, v>>]
    ELSE Append(d, <<key, v>>)
Keys(d) == {d[i][1] : i \in 1..Len(d)}

(***************************************************************************)
(* act.api.utils: snake_to_camel and camel_to_snake, on character          *)
(* sequences.  Chars/Text move between a name and its characters.          *)
(***************************************************************************)
LowerAlpha == <<"a","b","c","d","e","f","g","h","i","j","k","l","m",
                "n","o","p","q","r","s","t","u","v","w","x","y","z">>
UpperAlpha == <<"A","B","C","D","E","F","G","H","I","J","K","L","M",
                "N","O","P","Q","R","S","T","U","V","W","X","Y","Z">>
Digits == {"0","1","2","3","4","5","6","7","8","9"}

IsUpper(c) == \E i \in 1..Len(UpperAlpha) : UpperAlpha[i] = c
IsLower(c) == \E i \in 1..Len(LowerAlpha) : LowerAlpha[i] = c
ToLower(c) == IF IsUpper(c) THEN LowerAlpha[CHOOSE i \in 1..Len(UpperAlpha) : UpperAlpha[i] = c] ELSE c
ToUpper(c) == IF IsLower(c) THEN UpperAlpha[CHOOSE i \in 1..Len(LowerAlpha) : LowerAlpha[i] = c] ELSE c

\* The names the model uses, each with its characters.
NameTable == <<
    <<"name", <<"n","a","m","e">> >>,
    <<"id", <<"i","d">> >>,
    <<"namespace", <<"n","a","m","e","s","p","a","c","e">> >>,
    <<"organization", <<"o","r","g","a","n","i","z","a","t","i","o","n">> >>,
    <<"description", <<"d","e","s","c","r","i","p","t","i","o","n">> >>,
    <<"trust", <<"t","r","u","s","t">> >>,
    <<"type", <<"t","y","p","e">> >>,
    <<"flags", <<"f","l","a","g","s">> >>,
    <<"validator", <<"v","a","l","i","d","a","t","o","r">> >>,
    <<"validator_parameter", <<"v","a","l","i","d","a","t","o","r","_","p","a","r","a","m","e","t","e","r">> >>,
    <<"validatorParameter", <<"v","a","l","i","d","a","t","o","r","P","a","r","a","m","e","t","e","r">> >>,
    <<"value", <<"v","a","l","u","e">> >>,
    <<"statistics", <<"s","t","a","t","i","s","t","i","c","s">> >>,
    <<"object", <<"o","b","j","e","c","t">> >>,
    <<"direction", <<"d","i","r","e","c","t","i","o","n">> >>,
    <<"object_type", <<"o","b","j","e","c","t","_","t","y","p","e">> >>,
    <<"objectType", <<"o","b","j","e","c","t","T","y","p","e">> >>,
    <<"object_value", <<"o","b","j","e","c","t","_","v","a","l","u","e">> >>,
    <<"objectValue", <<"o","b","j","e","c","t","V","a","l","u","e">> >>,
    <<"count", <<"c","o","u","n","t">> >>,
    <<"last_seen_timestamp", <<"l","a","s","t","_","s","e","e","n","_","t","i","m","e","s","t","a","m","p">> >>,
    <<"lastSeenTimestamp", <<"l","a","s","t","S","e","e","n","T","i","m","e","s","t","a","m","p">> >>,
    <<"last_added_timestamp", <<"l","a","s","t","_","a","d","d","e","d","_","t","i","m","e","s","t","a","m","p">> >>,
    <<"lastAddedTimestamp", <<"l","a","s","t","A","d","d","e","d","T","i","m","e","s","t","a","m","p">> >>,
    <<"default_confidence", <<"d","e","f","a","u","l","t","_","c","o","n","f","i","d","e","n","c","e">> >>,
    <<"defaultConfidence", <<"d","e","f","a","u","l","t","C","o","n","f","i","d","e","n","c","e">> >>,
    <<"relevant_object_bindings", <<"r","e","l","e","v","a","n","t","_","o","b","j","e","c","t","_","b","i","n","d","i","n","g","s">> >>,
    <<"relevantObjectBindings", <<"r","e","l","e","v","a","n","t","O","b","j","e","c","t","B","i","n","d","i","n","g","s">> >>,
    <<"relevant_fact_bindings", <<"r","e","l","e","v","a","n","t","_","f","a","c","t","_","b","i","n","d","i","n","g","s">> >>,
    <<"relevantFactBindings", <<"r","e","l","e","v","a","n","t","F","a","c","t","B","i","n","d","i","n","g","s">> >>,
    <<"source_object_type", <<"s","o","u","r","c","e","_","o","b","j","e","c","t","_","t","y","p","e">> >>,
    <<"sourceObjectType", <<"s","o","u","r","c","e","O","b","j","e","c","t","T","y","p","e">> >>,
    <<"destination_object_type", <<"d","e","s","t","i","n","a","t","i","o","n","_","o","b","j","e","c","t","_","t","y","p","e">> >>,
    <<"destinationObjectType", <<"d","e","s","t","i","n","a","t","i","o","n","O","b","j","e","c","t","T","y","p","e">> >>,
    <<"bidirectional_binding", <<"b","i","d","i","r","e","c","t","i","o","n","a","l","_","b","i","n","d","i","n","g">> >>,
    <<"bidirectionalBinding", <<"b","i","d","i","r","e","c","t","i","o","n","a","l","B","i","n","d","i","n","g">> >>,
    <<"fact_type", <<"f","a","c","t","_","t","y","p","e">> >>,
    <<"factType", <<"f","a","c","t","T","y","p","e">> >>,
    <<"origin", <<"o","r","i","g","i","n">> >>,
    <<"comment", <<"c","o","m","m","e","n","t">> >>,
    <<"added_by", <<"a","d","d","e","d","_","b","y">> >>,
    <<"addedBy", <<"a","d","d","e","d","B","y">> >>,
    <<"confidence", <<"c","o","n","f","i","d","e","n","c","e">> >>,
    <<"certainty", <<"c","e","r","t","a","i","n","t","y">> >>,
    <<"timestamp", <<"t","i","m","e","s","t","a","m","p">> >>,
    <<"access_mode", <<"a","c","c","e","s","s","_","m","o","d","e">> >>,
    <<"accessMode", <<"a","c","c","e","s","s","M","o","d","e">> >>,
    <<"source_object", <<"s","o","u","r","c","e","_","o","b","j","e","c","t">> >>,
    <<"sourceObject", <<"s","o","u","r","c","e","O","b","j","e","c","t">> >>,
    <<"destination_object", <<"d","e","s","t","i","n","a","t","i","o","n","_","o","b","j","e","c","t">> >>,
    <<"destinationObject", <<"d","e","s","t","i","n","a","t","i","o","n","O","b","j","e","c","t">> >>,
    <<"in_reference_to", <<"i","n","_","r","e","f","e","r","e","n","c","e","_","t","o">> >>,
    <<"inReferenceTo", <<"i","n","R","e","f","e","r","e","n","c","e","T","o">> >>,
    <<"reply_to", <<"r","e","p","l","y","_","t","o">> >>,
    <<"replyTo", <<"r","e","p","l","y","T","o">> >>,
    <<"foo", <<"f","o","o">> >>,
    <<"fooBar", <<"f","o","o","B","a","r">> >>,
    <<"foo_bar", <<"f","o","o","_","b","a","r">> >> >>

Chars(name) == NameTable[CHOOSE i \in 1..Len(NameTable) : NameTable[i][1] = name][2]
\* A character sequence outside the table is a name no field carries.
Text(cs) ==
    IF \E i \in 1..Len(NameTable) : NameTable[i][2] = cs
    THEN NameTable[CHOOSE i \in 1..Len(NameTable) : NameTable[i][2] = cs][1]
    ELSE "?"

RECURSIVE LowerRunEnd(_, _)
\* The last index of the run [a-z]+ that starts at i (s[i] is lower case).
LowerRunEnd(s, i) ==
    IF i + 1 <= Len(s) /\ IsLower(s[i + 1]) THEN LowerRunEnd(s, i + 1) ELSE i

RECURSIVE Sub1(_, _)
\* re.sub('(.)([A-Z][a-z]+)', r'\1_\2', s), scanning from index i.
Sub1(s, i) ==
    IF i > Len(s) THEN <<>>
    ELSE IF i + 2 <= Len(s) /\ IsUpper(s[i + 1]) /\ IsLower(s[i + 2])
         THEN LET j == LowerRunEnd(s, i + 2)
              IN <<s[i], "_">> \o SubSeq(s, i + 1, j) \o Sub1(s, j + 1)
         ELSE <<s[i]>> \o Sub1(s, i + 1)

RECURSIVE Sub2Letters(_, _)
\* re.sub('([a-z])([A-Z])', r'\1_\2', s), scanning from index i.
Sub2Letters(s, i) ==
    IF i > Len(s) THEN <<>>
    ELSE IF i + 1 <= Len(s) /\ IsLower(s[i]) /\ IsUpper(s[i + 1])
         THEN <<s[i], "_", s[i + 1]>> \o Sub2Letters(s, i + 2)
         ELSE <<s[i]>> \o Sub2Letters(s, i + 1)
RECURSIVE Sub2(_, _)
\* re.sub('([a-z0-9])([A-Z])', r'\1_\2', s), scanning from index i.
Sub2(s, i) ==
    IF i > Len(s) THEN <<>>
    ELSE IF i + 1 <= Len(s) /\ (IsLower(s[i]) \/ s[i] \in Digits) /\ IsUpper(s[i + 1])
         THEN <<s[i], "_", s[i + 1]>> \o Sub2(s, i + 2)
         ELSE <<s[i]>> \o Sub2(s, i + 1)

CamelToSnakeChars(s) == LET t == Sub2(Sub1(s, 1), 1) IN [i \in 1..Len(t) |-> ToLower(t[i])]

RECURSIVE Title(_, _, _)
\* str.title(): a cased character is upper case after an uncased one (or at
\* the start) and lower case after a cased one.
Title(s, i, prevCased) ==
    IF i > Len(s) THEN <<>>
    ELSE IF IsLower(s[i]) \/ IsUpper(s[i])
         THEN <<IF prevCased THEN ToLower(s[i]) ELSE ToUpper(s[i])>> \o Title(s, i + 1, TRUE)
         ELSE <<s[i]>> \o Title(s, i + 1, FALSE)

RECURSIVE SnakeToCamelFrom(_, _, _)
\* components[0] + "".join(comp.title() for comp in components[1:]): the
\* characters from index i on, where first says whether the component at i
\* is components[0].
SnakeToCamelFrom(s, i, first) ==
    IF i > Len(s) THEN <<>>
    ELSE LET rest == SubSeq(s, i, Len(s))
             hasSep == \E j \in 1..Len(rest) : rest[j] = "_"
             cut == IF hasSep THEN CHOOSE j \in 1..Len(rest) :
                                       rest[j] = "_" /\ \A m \in 1..(j - 1) : rest[m] # "_"
                    ELSE Len(rest) + 1
             comp == SubSeq(rest, 1, cut - 1)
         IN (IF first THEN comp ELSE Title(comp, 1, FALSE))
            \o SnakeToCamelFrom(s, i + cut, FALSE)

SnakeToCamelChars(s) == SnakeToCamelFrom(s, 1, TRUE)

Names == { NameTable[i][1] : i \in 1..Len(NameTable) }
\* The two conversions, tabulated over the names in use.
CamelToSnakeOf == [name \in Names |-> Text(CamelToSnakeChars(Chars(name)))]
SnakeToCamelOf == [name \in Names |-> Text(SnakeToCamelChars(Chars(name)))]

camel_to_snake(name) == CamelToSnakeOf[name]
snake_to_camel(name) == SnakeToCamelOf[name]

(***************************************************************************)
(* act.api.schema.Field and the SCHEMA lists of the entity classes.       *)
(* serializer: "None" (unset), "False" (never serialized), or "name"/"id"  *)
(* (lambda v: v.name / v.id).  deserializer: "default"                     *)
(* (default_deserializer), "False", or the name of an entity class.        *)
(* A target of "" is an unset (None) target.                               *)
(***************************************************************************)
Field(name) ==
    [name |-> name, default |-> None, serializer |-> "None",
     deserializer |-> "default", serialize_target |-> "",
     deserialize_target |-> "", flatten |-> FALSE]
NoField == Field("")

DEFAULT_VALIDATOR == Str("(.|\\n)*")

NameSpaceSchema == <<Field("name"), Field("id")>>
OrganizationSchema == <<Field("name"), Field("id")>>
OriginSchema == <<
    Field("name"),
    Field("id"),
    [Field("namespace") EXCEPT !.serializer = "False", !.deserializer = "NameSpace"],
    [Field("organization") EXCEPT !.deserializer = "Organization"],
    Field("description"),
    Field("trust"),
    [Field("type") EXCEPT !.serializer = "False"],
    [Field("flags") EXCEPT !.serializer = "False"] >>
ObjectTypeSchema == <<
    Field("name"),
    Field("id"),
    [Field("validator") EXCEPT !.default = Str("RegexValidator")],
    [Field("validator_parameter") EXCEPT !.default = DEFAULT_VALIDATOR],
    [Field("namespace") EXCEPT !.deserializer = "NameSpace"] >>
ObjectStatisticsSchema == <<
    [Field("type") EXCEPT !.deserializer = "ObjectType"],
    Field("count"),
    [Field("last_seen_timestamp") EXCEPT !.serializer = "False"],
    [Field("last_added_timestamp") EXCEPT !.serializer = "False"] >>
ObjectSchema == <<
    [Field("type") EXCEPT !.deserializer = "ObjectType", !.serializer = "name"],
    Field("value"),
    Field("id"),
    [Field("statistics") EXCEPT !.deserializer = "ObjectStatistics", !.serializer = "False"],
    [Field("object") EXCEPT !.flatten = TRUE],
    Field("direction"),
    [Field("object_type") EXCEPT !.deserialize_target = "type", !.serializer = "False"],
    [Field("object_value") EXCEPT !.deserialize_target = "value", !.serializer = "False"] >>
RelevantObjectBindingsSchema == <<
    [Field("source_object_type") EXCEPT !.deserializer = "ObjectType", !.serializer = "id"],
    [Field("destination_object_type") EXCEPT !.deserializer = "ObjectType", !.serializer = "id"],
    [Field("bidirectional_binding") EXCEPT !.default = False] >>
RelevantFactBindingsSchema == <<
    Field("name"),
    Field("id"),
    [Field("fact_type") EXCEPT !.flatten = TRUE] >>
FactTypeSchema == <<
    Field("name"),
    Field("id"),
    Field("default_confidence"),
    [Field("validator") EXCEPT !.default = Str("RegexValidator")],
    [Field("validator_parameter") EXCEPT !.default = DEFAULT_VALIDATOR],
    [Field("relevant_object_bindings") EXCEPT !.deserializer = "RelevantObjectBindings"],
    [Field("relevant_fact_bindings") EXCEPT !.deserializer = "RelevantFactBindings"],
    [Field("namespace") EXCEPT !.deserializer = "NameSpace"] >>
AbstractFactSchema == <<
    [Field("type") EXCEPT !.deserializer = "FactType", !.serializer = "name"],
    Field("value"),
    [Field("id") EXCEPT !.serializer = "False"],
    [Field("flags") EXCEPT !.serializer = "False"],
    [Field("origin") EXCEPT !.deserializer = "Origin"],
    Field("comment"),
    [Field("added_by") EXCEPT !.deserializer = "Origin", !.serializer = "False"],
    [Field("trust") EXCEPT !.serializer = "False"],
    Field("confidence"),
    [Field("certainty") EXCEPT !.serializer = "False"],
    [Field("timestamp") EXCEPT !.serializer = "False"],
    [Field("last_seen_timestamp") EXCEPT !.serializer = "False"],
    [Field("organization") EXCEPT !.deserializer = "Organization"],
    Field("access_mode"),
    [Field("source_object") EXCEPT !.deserializer = "Object"],
    [Field("destination_object") EXCEPT !.deserializer = "Object"],
    [Field("bidirectional_binding") EXCEPT !.default = False] >>
FactSchema == AbstractFactSchema \o <<[Field("in_reference_to") EXCEPT !.serializer = "False"]>>
MetaFactSchema == AbstractFactSchema \o <<[Field("in_reference_to") EXCEPT !.deserializer = "Fact"]>>
\* act.fact.Fact, the Fact of the first generation of the library.
LegacyFactSchema == <<
    [Field("type") EXCEPT !.deserializer = "FactType", !.serializer = "name"],
    [Field("value") EXCEPT !.default = Str("")],
    [Field("id") EXCEPT !.serializer = "False"],
    [Field("source") EXCEPT !.deserializer = "False", !.serializer = "False"],
    [Field("timestamp") EXCEPT !.serializer = "False"],
    [Field("last_seen_timestamp") EXCEPT !.serializer = "False"],
    [Field("in_reference_to") EXCEPT !.deserializer = "ReferencedFact"],
    [Field("organization") EXCEPT !.deserializer = "Organization", !.serializer = "False"],
    [Field("access_mode") EXCEPT !.default = Str("Public")],
    [Field("source_object") EXCEPT !.deserializer = "Object"],
    [Field("destination_object") EXCEPT !.deserializer = "Object"],
    [Field("bidirectional_binding") EXCEPT !.default = False] >>
CommentSchema == <<
    Field("comment"),
    Field("id"),
    [Field("timestamp") EXCEPT !.serializer = "False"],
    Field("reply_to"),
    [Field("origin") EXCEPT !.deserializer = "Origin", !.serializer = "False"] >>

\* ActBase.SCHEMA, which class Child(ActBase) of src/test/test_base.py
\* inherits as it is.
ActBaseSchema == <<>>

\* The schemas of src/test/test_schema.py, which derive from Schema alone.
\* The default of objects is the list object made once, when the class body
\* runs: the object at address 1 of the heap.
TestObjectTypeSchema == <<Field("name"), Field("id")>>
TestObjectSchema == <<
    [Field("type") EXCEPT !.deserializer = "TestObjectType"],
    Field("value"),
    Field("id"),
    [Field("object") EXCEPT !.flatten = TRUE],
    Field("direction") >>
TestFactTypeSchema == <<Field("name"), Field("id")>>
TestFactSchema == <<
    [Field("type") EXCEPT !.deserializer = "TestFactType", !.serializer = "name"],
    Field("value"),
    [Field("id") EXCEPT !.serializer = "False"],
    [Field("timestamp") EXCEPT !.serializer = "False"],
    [Field("objects") EXCEPT !.default = Ref(1), !.serialize_target = "bindings",
                             !.deserializer = "TestObject"] >>
\* The classes that derive from Schema and not from ActBase.
SchemaClasses == {"TestObjectType", "TestObject", "TestFactType", "TestFact"}

SCHEMA(cls) ==
    CASE cls = "NameSpace" -> NameSpaceSchema
      [] cls = "Organization" -> OrganizationSchema
      [] cls = "Origin" -> OriginSchema
      [] cls = "ObjectType" -> ObjectTypeSchema
      [] cls = "ObjectStatistics" -> ObjectStatisticsSchema
      [] cls = "Object" -> ObjectSchema
      [] cls = "RelevantObjectBindings" -> RelevantObjectBindingsSchema
      [] cls = "RelevantFactBindings" -> RelevantFactBindingsSchema
      [] cls = "FactType" -> FactTypeSchema
      [] cls = "Fact" -> FactSchema
      [] cls = "MetaFact" -> MetaFactSchema
      [] cls = "act.fact.Fact" -> LegacyFactSchema
      [] cls = "Comment" -> CommentSchema
      [] cls = "Child" -> ActBaseSchema
      [] cls = "TestObjectType" -> TestObjectTypeSchema
      [] cls = "TestObject" -> TestObjectSchema
      [] cls = "TestFactType" -> TestFactTypeSchema
      [] cls = "TestFact" -> TestFactSchema

get_field(cls, name) ==
    LET S == SCHEMA(cls)
    IN IF \E i \in 1..Len(S) : S[i].name = name
       THEN S[CHOOSE i \in 1..Len(S) : S[i].name = name /\ \A j \in 1..(i - 1) : S[j].name # name]
       ELSE NoField

\* The lookup without redirection: a field is stored under its own name.
get_own_field(cls, name) == get_field(cls, name)

get_deserialize_field(cls, name) ==
    LET field == get_field(cls, name)
    IN IF field = NoField THEN NoField
       ELSE IF field.deserialize_target # "" THEN get_field(cls, field.deserialize_target)
       ELSE field

(***************************************************************************)
(* Deserialization: Field.deserialize, Schema.__init__, Schema.deserialize *)
(***************************************************************************)
\* str.strip() on the strings of the model: the padded ones lose their padding.
Strip(s) == CASE s = " v" -> "v" [] s = " " -> "" [] OTHER -> s

default_deserializer(value) == IF value.k = "str" THEN Str(Strip(value.s)) ELSE value

\* The state of a deserialization: the attribute store so far.
Data(items) == [k |-> "data", items |-> items]
\* A deserialization that raised e, with the attribute store as it was left.
Raised(e, items) == [k |-> "exc", e |-> e, items |-> items]

\* deserialize without its closing loop over the defaults.
WithoutDefaults(cls, data, i) == data

\* The default stored as it is, without a copy.
shared_default(v) == v

\* copy.copy(v): an immutable value is its own copy; the copy of a mutable
\* object is a new object with the same content, which the operation that
\* constructs the entity places in the heap.
copy_copy(v) == IF v.k = "ref" THEN [k |-> "copy", a |-> v.a] ELSE v

RECURSIVE ApplyDefaults(_, _, _)
\* Lines 210-219: every field not yet stored, not redirected, not flatten and
\* not deserialization-disabled gets a copy of its default.
ApplyDefaults(cls, data, i) ==
    IF i > Len(SCHEMA(cls)) THEN data
    ELSE LET field == SCHEMA(cls)[i]
         IN IF /\ ~Has(data, field.name)
               /\ field.deserialize_target = ""
               /\ ~field.flatten
               /\ field.deserializer # "False"
            THEN ApplyDefaults(cls, Append(data, <<field.name, copy_copy(field.default)>>), i + 1)
            ELSE ApplyDefaults(cls, data, i + 1)

RECURSIVE FoldArgsKeepNamed(_, _, _, _)
\* The positional arguments folded in only where no named argument is given.
FoldArgsKeepNamed(cls, args, kwargs, i) ==
    IF i > Len(args) THEN kwargs
    ELSE FoldArgsKeepNamed(cls, args,
                           IF Has(kwargs, SCHEMA(cls)[i].name) THEN kwargs
                           ELSE Put(kwargs, SCHEMA(cls)[i].name, args[i]),
                           i + 1)

RECURSIVE FoldArgs(_, _, _, _)
\* Lines 120-121: kwargs[self.SCHEMA[i].name] = v for every positional v.
FoldArgs(cls, args, kwargs, i) ==
    IF i > Len(args) THEN kwargs
    ELSE FoldArgs(cls, args, Put(kwargs, SCHEMA(cls)[i].name, args[i]), i + 1)

RECURSIVE New(_, _, _), DeserLoop(_, _, _, _), FieldDeserialize(_, _), DeserList(_, _, _, _)
RECURSIVE DeserListNext(_, _, _, _, _), DeserStore(_, _, _, _, _, _), DeserFlat(_, _, _, _)
RECURSIVE DeserEntry(_, _, _, _, _, _)

\* Field.deserialize without its first test: an entity instance is handed to
\* the deserializer like any other value.
FieldDeserializeRebuilt(field, value) ==
    IF value.k = "dict"
    THEN IF field.deserializer = "default" THEN Exc("ValidationError")
         ELSE New(field.deserializer, <<>>, value.items)
    ELSE IF field.deserializer = "default" THEN default_deserializer(value)
    ELSE New(field.deserializer, <<value>>, <<>>)

\* Field.deserialize of one value (lines 62-78).  An entity instance, held by
\* value or by reference, is returned as it is.
FieldDeserialize(field, value) ==
    IF value.k \in {"ent", "ref"} THEN value
    ELSE IF value.k = "dict"
         THEN IF field.deserializer = "default" THEN Exc("ValidationError")
              ELSE New(field.deserializer, <<>>, value.items)
    ELSE IF field.deserializer = "default" THEN default_deserializer(value)
    ELSE New(field.deserializer, <<value>>, <<>>)

\* [field.deserialize(v) for v in value], from index i on, onto acc.
DeserList(field, items, i, acc) ==
    IF i > Len(items) THEN List(acc)
    ELSE DeserListNext(field, items, i, acc, FieldDeserialize(field, items[i]))
DeserListNext(field, items, i, acc, v) ==
    IF IsExc(v) THEN v ELSE DeserList(field, items, i + 1, Append(acc, v))

\* Schema.deserialize(**entries) from entry i on, on the store data.
DeserLoop(cls, data, entries, i) ==
    IF i > Len(entries) THEN Data(ApplyDefaults(cls, data, 1))
    ELSE DeserEntry(cls, data, entries, i,
                    get_deserialize_field(cls, camel_to_snake(entries[i][1])),
                    entries[i][2])
\* One entry under the strict policy: an undeclared key raises.
DeserEntryStrict(cls, data, entries, i, field, value) ==
    IF field = NoField THEN Raised("ValidationError", data)
    ELSE IF field.deserializer = "False" THEN DeserLoop(cls, data, entries, i + 1)
    ELSE IF field.flatten
         THEN IF value.k # "dict" THEN Raised("TypeError", data)
              ELSE DeserFlat(cls, DeserLoop(cls, data, value.items, 1), entries, i)
    ELSE DeserStore(cls, data, entries, i, field,
                    IF value.k = "list" THEN DeserList(field, value.items, 1, <<>>)
                    ELSE FieldDeserialize(field, value))
\* One entry: skipped (lines 190-196), flattened (198-201) or stored (203-208).
DeserEntry(cls, data, entries, i, field, value) ==
    IF field = NoField \/ field.deserializer = "False"
    THEN DeserLoop(cls, data, entries, i + 1)
    ELSE IF field.flatten
         THEN IF value.k # "dict" THEN Raised("TypeError", data)
              ELSE DeserFlat(cls, DeserLoop(cls, data, value.items, 1), entries, i)
    ELSE DeserStore(cls, data, entries, i, field,
                    IF value.k = "list" THEN DeserList(field, value.items, 1, <<>>)
                    ELSE FieldDeserialize(field, value))
\* The flattened entries deserialized, and then dropped.
DeserFlatDropped(cls, inner, entries, i) ==
    IF IsExc(inner) THEN inner ELSE DeserLoop(cls, <<>>, entries, i + 1)
DeserFlat(cls, inner, entries, i) ==
    IF IsExc(inner) THEN inner ELSE DeserLoop(cls, inner.items, entries, i + 1)
DeserStore(cls, data, entries, i, field, v) ==
    IF IsExc(v) THEN Raised(v.e, data)
    ELSE DeserLoop(cls, Put(data, field.name, v), entries, i + 1)

NewResult(cls, r) == IF IsExc(r) THEN Exc(r.e) ELSE Ent(cls, r.items, <<>>)
\* Schema.__init__(*args, **kwargs): the new entity, or the exception raised.
New(cls, args, kwargs) ==
    IF Len(args) > Len(SCHEMA(cls)) THEN Exc("IndexError")
    ELSE NewResult(cls, DeserLoop(cls, <<>>, FoldArgs(cls, args, kwargs, 1), 1))

\* self.data = {}; self.deserialize(**doc), as get/add/rename do with the
\* data of a backend response: the entity afterwards, also when it raised.
Reload(ent, doc) ==
    LET r == DeserLoop(ent.cls, <<>>, doc, 1)
    IN [ent EXCEPT !.data = r.items]
ReloadRaises(ent, doc) == IsExc(DeserLoop(ent.cls, <<>>, doc, 1))

(***************************************************************************)
(* Attribute access: Schema.__getattr__ and Schema.__setattr__             *)
(***************************************************************************)
\* Normal lookup finds a plain instance attribute first; __getattr__ then
\* reads the attribute store.
GetAttr(ent, attr) ==
    IF Has(ent.attrs, attr) THEN Get(ent.attrs, attr)
    ELSE IF Has(ent.data, attr) THEN Get(ent.data, attr)
    ELSE Exc("AttributeError")

SetAttr(ent, attr, value) ==
    IF Has(ent.data, attr)
    THEN [ent EXCEPT !.data = Put(ent.data, attr, value)]
    ELSE [ent EXCEPT !.attrs = Put(ent.attrs, attr, value)]

(***************************************************************************)
(* Truthiness, equality and hashing                                        *)
(***************************************************************************)
\* bool(v).  Object and RelevantFactBindings define __bool__; every other
\* entity is true.
RECURSIVE Truthy(_)
Truthy(v) ==
    CASE v.k = "none" -> FALSE
      [] v.k = "str" -> v.s # ""
      [] v.k = "num" -> v.n # 0
      [] v.k = "list" -> Len(v.items) > 0
      [] v.k = "dict" -> Len(v.items) > 0
      [] v.k = "ent" ->
            IF v.cls = "Object"
            THEN Truthy(Get(v.data, "id"))
                   \/ (Truthy(Get(v.data, "type")) /\ Truthy(Get(v.data, "value")))
            ELSE IF v.cls = "RelevantFactBindings" THEN Truthy(Get(v.data, "id"))
            ELSE TRUE

\* isinstance(other, cls): the modelled classes do not derive from each other.
IsInstance(v, cls) == v.k = "ent" /\ v.cls = cls

Not(r) == IF IsExc(r) THEN r ELSE IF r = True THEN False ELSE True

RECURSIVE PyEq(_, _), PyNe(_, _), ActBaseEq(_, _), EqLoop(_, _, _), ListEq(_, _, _)
RECURSIVE EqNext(_, _, _, _), EqIds(_, _, _), IdCheck(_, _), ListNext(_, _, _, _)
RECURSIVE SchemaEq(_, _), SchemaEqLoop(_, _, _), SchemaEqNext(_, _, _, _)

\* Schema.__eq__, lines 251-256: the loop over self.data, from entry i on.
SchemaEqLoop(self, other, i) ==
    IF i > Len(self.data) THEN True
    ELSE SchemaEqNext(self, other, i, PyNe(Get(other.data, self.data[i][1]), self.data[i][2]))
SchemaEqNext(self, other, i, ne) ==
    IF IsExc(ne) THEN ne
    ELSE IF ne = True THEN False
    ELSE SchemaEqLoop(self, other, i + 1)
\* Schema.__eq__(self, other)
SchemaEq(self, other) ==
    IF ~IsInstance(other, self.cls) THEN False
    ELSE SchemaEqLoop(self, other, 1)

\* ActBase.__eq__, lines 293-304: the loop over self.data, from entry i on.
\* True when no field differed, False when one did, or the exception raised.
EqLoop(self, other, i) ==
    IF i > Len(self.data) THEN True
    ELSE IF \/ get_field(self.cls, self.data[i][1]).serializer = "False"
            \/ self.data[i][1] = "id"
         THEN EqLoop(self, other, i + 1)
    ELSE EqNext(self, other, i, PyNe(Get(other.data, self.data[i][1]), self.data[i][2]))
\* if other.data.get(field) != value: return False
EqNext(self, other, i, ne) ==
    IF IsExc(ne) THEN ne
    ELSE IF ne = True THEN False
    ELSE EqLoop(self, other, i + 1)

\* Line 307: the last operand, self.id != other.id.
IdDiffer(ne) == IF IsExc(ne) THEN ne ELSE IF ne = True THEN Exc("InvalidData") ELSE True
\* Line 307: if self.id and other.id and self.id != other.id, read left to right.
IdCheck(sid, oid) ==
    IF IsExc(sid) THEN sid
    ELSE IF ~Truthy(sid) THEN True
    ELSE IF IsExc(oid) THEN oid
    ELSE IF ~Truthy(oid) THEN True
    ELSE IdDiffer(PyNe(sid, oid))
\* Lines 306-311, after the loop gave fields.
EqIds(self, other, fields) ==
    IF fields # True THEN fields
    ELSE IdCheck(GetAttr(self, "id"), GetAttr(other, "id"))

\* ActBase.__eq__(self, other): True, False, or the exception raised.
ActBaseEq(self, other) ==
    IF ~IsInstance(other, self.cls) THEN False
    ELSE EqIds(self, other, EqLoop(self, other, 1))

\* list.__eq__ on lists of equal length: the items from index i on.
ListEq(a, b, i) ==
    IF i > Len(a) THEN True
    ELSE ListNext(a, b, i, PyEq(a[i], b[i]))
ListNext(a, b, i, r) == IF r = True THEN ListEq(a, b, i + 1) ELSE r

\* a == b
PyEq(a, b) ==
    IF a.k = "ent" THEN (IF a.cls \in SchemaClasses THEN SchemaEq(a, b) ELSE ActBaseEq(a, b))
    ELSE IF b.k = "ent"                            \* the reflected __eq__
         THEN (IF b.cls \in SchemaClasses THEN SchemaEq(b, a) ELSE ActBaseEq(b, a))
    ELSE IF a.k # b.k THEN False
    ELSE IF a.k = "list"
         THEN IF Len(a.items) # Len(b.items) THEN False ELSE ListEq(a.items, b.items, 1)
    ELSE IF a.k = "num" THEN (IF a.n = b.n THEN True ELSE False)
    ELSE IF a = b THEN True ELSE False

\* a != b: Schema.__ne__ is not self.__eq__(other); list and scalars negate ==.
PyNe(a, b) == Not(PyEq(a, b))

\* The classes that define __hash__.  ActBase and Schema define __eq__ and no
\* __hash__, which leaves every other class unhashable.
DefinesHash == {"ObjectType", "ObjectStatistics", "Object", "RelevantObjectBindings",
                "RelevantFactBindings", "FactType", "Fact", "MetaFact"}

\* The attributes each __hash__ puts in the hashed tuple, after the class name
\* (FactType hashes no class name).
HashedAttrs(cls) ==
    CASE cls = "ObjectType" -> <<"name", "namespace">>
      [] cls = "Object" -> <<"type", "value">>
      [] cls = "RelevantObjectBindings" ->
            <<"source_object_type", "destination_object_type", "bidirectional_binding">>
      [] cls = "RelevantFactBindings" -> <<"name", "fact_type">>
      [] cls = "FactType" -> <<"name", "namespace">>
      [] cls = "Fact" -> <<"type", "value", "origin", "confidence", "organization",
                           "access_mode", "source_object", "destination_object",
                           "bidirectional_binding">>
      [] cls = "MetaFact" -> <<"type", "value", "origin", "confidence", "organization",
                               "access_mode", "in_reference_to">>
      [] OTHER -> <<>>

Hashed(h) == [k |-> "hash", h |-> h]

RECURSIVE PyHash(_), HashAttrs(_, _, _, _), HashNext(_, _, _, _, _)

\* The hashes of the attributes names[i..] of ent, onto acc; or the exception.
HashAttrs(ent, names, i, acc) ==
    IF i > Len(names) THEN Hashed(acc)
    ELSE HashNext(ent, names, i, acc, PyHash(GetAttr(ent, names[i])))
HashNext(ent, names, i, acc, h) ==
    IF IsExc(h) THEN h ELSE HashAttrs(ent, names, i + 1, Append(acc, h))

\* hash(v): an injective image of what is hashed, or TypeError (unhashable).
\* The tuple a __hash__ builds reads every attribute before any is hashed.
PyHash(v) ==
    CASE v.k = "none" -> Hashed(<<"none">>)
      [] v.k = "str" -> Hashed(<<"str", v.s>>)
      [] v.k = "num" -> Hashed(<<"num", v.n>>)
      [] v.k = "list" -> Exc("TypeError")
      [] v.k = "dict" -> Exc("TypeError")
      [] v.k = "ent" ->
            IF v.cls \notin DefinesHash THEN Exc("TypeError")
            ELSE IF v.cls = "ObjectStatistics" THEN Exc("AttributeError")  \* self.count.self
            ELSE IF \E i \in 1..Len(HashedAttrs(v.cls)) :
                        IsExc(GetAttr(v, HashedAttrs(v.cls)[i]))
                 THEN Exc("AttributeError")
            ELSE HashAttrs(v, HashedAttrs(v.cls), 1,
                           IF v.cls = "FactType" THEN <<>> ELSE <<Hashed(<<"str", v.cls>>)>>)

(***************************************************************************)
(* Serialization: Field.serialize, Schema.serialize and its overrides      *)
(***************************************************************************)
RECURSIVE Serialize(_), SchemaSerialize(_, _, _), SerLoop(_, _, _, _, _),
          FieldSerialize(_, _), SerList(_, _, _, _)
RECURSIVE SerListNext(_, _, _, _, _), SerField(_, _, _, _, _, _, _, _), SerStore(_, _, _, _, _, _, _)
RECURSIVE SerializeObject(_, _), SerializeBindings(_)

\* Field.serialize(value), lines 80-91.
FieldSerialize(field, value) ==
    IF field.serializer \in {"name", "id"}
    THEN IF IsEnt(value) THEN GetAttr(value, field.serializer) ELSE Exc("AttributeError")
    ELSE IF IsEnt(value) THEN Serialize(value)
    ELSE value

\* [field.serialize(v) for v in value], from index i on, onto acc.
SerList(field, items, i, acc) ==
    IF i > Len(items) THEN List(acc)
    ELSE SerListNext(field, items, i, acc, FieldSerialize(field, items[i]))
SerListNext(field, items, i, acc, v) ==
    IF IsExc(v) THEN v ELSE SerList(field, items, i + 1, Append(acc, v))

\* Lines 135-138: the key a field is serialized under.
SerializeTarget(field, to_camel_case) ==
    IF to_camel_case
    THEN snake_to_camel(IF field.serialize_target # "" THEN field.serialize_target
                        ELSE field.name)
    ELSE IF field.serialize_target # "" THEN field.serialize_target ELSE field.name

\* Schema.serialize, lines 133-153: the fields from index i on, onto entries.
SerLoop(ent, exclude_none, to_camel_case, i, entries) ==
    IF i > Len(SCHEMA(ent.cls)) THEN Dict(entries)
    ELSE SerField(ent, exclude_none, to_camel_case, i, entries, SCHEMA(ent.cls)[i],
                  SerializeTarget(SCHEMA(ent.cls)[i], to_camel_case),
                  Get(ent.data, SCHEMA(ent.cls)[i].name))
\* Lines 141-153 with "if exclude_none and not value".
SerFieldFalsy(ent, exclude_none, to_camel_case, i, entries, field, key, value) ==
    IF (exclude_none /\ ~Truthy(value)) \/ field.serializer = "False"
    THEN SerLoop(ent, exclude_none, to_camel_case, i + 1, entries)
    ELSE SerStore(ent, exclude_none, to_camel_case, i, entries, key,
                  IF value.k = "list" THEN SerList(field, value.items, 1, <<>>)
                  ELSE FieldSerialize(field, value))
\* Lines 141-153 for one field.
SerField(ent, exclude_none, to_camel_case, i, entries, field, key, value) ==
    IF (exclude_none /\ value = None) \/ field.serializer = "False"
    THEN SerLoop(ent, exclude_none, to_camel_case, i + 1, entries)
    ELSE SerStore(ent, exclude_none, to_camel_case, i, entries, key,
                  IF value.k = "list" THEN SerList(field, value.items, 1, <<>>)
                  ELSE FieldSerialize(field, value))
SerStore(ent, exclude_none, to_camel_case, i, entries, key, v) ==
    IF IsExc(v) THEN v
    ELSE SerLoop(ent, exclude_none, to_camel_case, i + 1, Put(entries, key, v))

SchemaSerialize(ent, exclude_none, to_camel_case) ==
    SerLoop(ent, exclude_none, to_camel_case, 1, <<>>)

\* a or b, on values
Or(a, b) == IF IsExc(a) THEN a ELSE IF Truthy(a) THEN a ELSE b

\* Object.serialize, with idOrValue the value of self.id or self.value.
SerializeObject(ent, idOrValue) ==
    IF IsExc(idOrValue) THEN idOrValue
    ELSE IF ~Truthy(idOrValue) THEN None
    ELSE SchemaSerialize(ent, TRUE, TRUE)
\* RelevantFactBindings.serialize, with id the value of self.id.
SerializeBindings(id) ==
    IF IsExc(id) THEN id
    ELSE IF ~Truthy(id) THEN None
    ELSE Dict(<< <<"factType", id>> >>)

\* ent.serialize(): Organization, Object and RelevantFactBindings override it.
Serialize(ent) ==
    CASE ent.cls = "Organization" ->
            Or(GetAttr(ent, "id"), Or(GetAttr(ent, "name"), None))
      [] ent.cls = "Object" ->
            SerializeObject(ent, Or(GetAttr(ent, "id"), GetAttr(ent, "value")))
      [] ent.cls = "RelevantFactBindings" -> SerializeBindings(GetAttr(ent, "id"))
      [] OTHER -> SchemaSerialize(ent, TRUE, TRUE)

(***************************************************************************)
(* Schema.__repr__ and its evaluation.  A repr is the expression it        *)
(* writes: a constructor call with keyword arguments, a list display or a  *)
(* literal.                                                                *)
(***************************************************************************)
Call(cls, args) == [k |-> "call", cls |-> cls, args |-> args]
Display(items) == [k |-> "display", items |-> items]
Literal(v) == [k |-> "lit", v |-> v]

RECURSIVE Repr(_), ReprLoop(_, _, _), ReprList(_, _, _)
RECURSIVE ReprListNext(_, _, _, _), ReprField(_, _, _, _, _), ReprArg(_, _, _, _, _)
RECURSIVE ReprOf(_)

\* repr of the items from index i on, onto acc.
ReprList(items, i, acc) ==
    IF i > Len(items) THEN Display(acc)
    ELSE ReprListNext(items, i, acc, Repr(items[i]))
ReprListNext(items, i, acc, r) ==
    IF IsExc(r) THEN r ELSE ReprList(items, i + 1, Append(acc, r))

\* Lines 280-283: value = self[field.name], through the field's serializer.
ReprValue(ent, field) ==
    IF ~Has(ent.data, field.name) THEN Exc("KeyError")
    ELSE IF field.serializer \in {"name", "id"}
         THEN IF IsEnt(Get(ent.data, field.name))
              THEN GetAttr(Get(ent.data, field.name), field.serializer)
              ELSE Exc("AttributeError")
    ELSE Get(ent.data, field.name)
ReprOf(value) == IF IsExc(value) THEN value ELSE Repr(value)

\* Schema.__repr__, lines 273-285: the fields from index i on, onto args.
ReprLoop(ent, i, args) ==
    IF i > Len(SCHEMA(ent.cls)) THEN Call(ent.cls, args)
    ELSE IF SCHEMA(ent.cls)[i].serializer = "False" THEN ReprLoop(ent, i + 1, args)
    ELSE ReprField(ent, i, args, SCHEMA(ent.cls)[i],
                   PyEq(Get(ent.data, SCHEMA(ent.cls)[i].name), SCHEMA(ent.cls)[i].default))
\* Lines 277-285 for one field, isDefault the result of the comparison.
ReprField(ent, i, args, field, isDefault) ==
    IF IsExc(isDefault) THEN isDefault
    ELSE IF isDefault = True THEN ReprLoop(ent, i + 1, args)
    ELSE ReprArg(ent, i, args, field, ReprOf(ReprValue(ent, field)))
ReprArg(ent, i, args, field, r) ==
    IF IsExc(r) THEN r ELSE ReprLoop(ent, i + 1, Append(args, <<field.name, r>>))

\* repr(v)
Repr(v) ==
    IF v.k = "ent" THEN ReprLoop(v, 1, <<>>)
    ELSE IF v.k = "list" THEN ReprList(v.items, 1, <<>>)
    ELSE Literal(v)

RECURSIVE Eval(_), EvalArgs(_, _, _), EvalItems(_, _, _)
RECURSIVE EvalArgsNext(_, _, _, _), EvalItemsNext(_, _, _, _)

\* The keyword arguments of a call from index i on, evaluated onto acc.
EvalArgs(args, i, acc) ==
    IF i > Len(args) THEN Data(acc)
    ELSE EvalArgsNext(args, i, acc, Eval(args[i][2]))
EvalArgsNext(args, i, acc, v) ==
    IF IsExc(v) THEN v ELSE EvalArgs(args, i + 1, Append(acc, <<args[i][1], v>>))

EvalItems(items, i, acc) ==
    IF i > Len(items) THEN List(acc)
    ELSE EvalItemsNext(items, i, acc, Eval(items[i]))
EvalItemsNext(items, i, acc, v) ==
    IF IsExc(v) THEN v ELSE EvalItems(items, i + 1, Append(acc, v))

EvalCall(cls, kw) == IF IsExc(kw) THEN kw ELSE New(cls, <<>>, kw.items)
\* eval(expression), with the entity classes in scope.
Eval(expr) ==
    CASE expr.k = "lit" -> expr.v
      [] expr.k = "display" -> EvalItems(expr.items, 1, <<>>)
      [] expr.k = "call" -> EvalCall(expr.cls, EvalArgs(expr.args, 1, <<>>))
      [] OTHER -> expr

(***************************************************************************)
(* The inputs: the documents and arguments entities are built from.        *)
(***************************************************************************)
MaxDocLen == 2

NameSpaceDoc == Dict(<< <<"name", Str("ns")>> >>)
ObjectTypeDoc == Dict(<< <<"name", Str("ipv4")>>, <<"namespace", NameSpaceDoc>> >>)

\* The <<key, value>> entries a document for cls may carry.
Entries(cls) ==
    CASE cls = "Organization" ->
            { <<"name", Str("m")>>, <<"id", Str("A")>>, <<"id", Str("")>>,
              <<"foo", Str("x")>> }
      [] cls = "Origin" ->
            { <<"name", Str("o")>>, <<"id", Str("A")>>,
              <<"organization", Str("m")>>,
              <<"organization", Dict(<< <<"id", Str("A")>> >>)>>,
              <<"organization", Dict(<< <<"name", Str("m")>>, <<"id", Str("A")>> >>)>>,
              <<"description", Str(" v")>>,
              <<"fooBar", None>> }
      [] cls = "Object" ->
            { <<"type", Str("ipv4")>>, <<"objectType", Str("fqdn")>>,
              <<"value", Str("v")>>, <<"object_value", Str("")>>,
              <<"id", Str("A")>>,
              <<"object", Dict(<< <<"value", Str("w")>>, <<"type", ObjectTypeDoc>> >>)>>,
              <<"object", None>>,
              <<"direction", Dict(<<>>)>>,
              <<"foo", Str("x")>> }
      [] cls = "FactType" ->
            { <<"name", Str("seenIn")>>, <<"defaultConfidence", Num(0)>>,
              <<"relevantObjectBindings", List(<<>>)>>,
              <<"namespace", NameSpaceDoc>> }
      [] cls = "Fact" ->
            { <<"type", Str("seenIn")>>, <<"value", Str("")>>,
              <<"origin", Dict(<< <<"name", Str("o")>>,
                                  <<"organization", Dict(<< <<"id", Str("A")>> >>)>> >>)>>,
              <<"organization", Dict(<< <<"id", Str("A")>> >>)>>,
              <<"sourceObject", Dict(<< <<"type", ObjectTypeDoc>>, <<"value", Str("v")>> >>)>>,
              <<"confidence", Num(0)>>,
              <<"id", Str("A")>> }

Classes == {"Organization", "Origin", "Object", "FactType", "Fact"}

\* The documents of at most n entries with distinct keys.
Docs(cls, n) ==
    UNION { { d \in [1..m -> Entries(cls)] :
                \A i, j \in 1..m : i # j => d[i][1] # d[j][1] } : m \in 0..n }

\* Positional arguments: none or one.
ArgLists == { <<>>, <<Str("p")>> }

\* The data of a backend response: one entry, or none.
Responses(cls) == {<<>>} \cup { <<entry>> : entry \in Entries(cls) }

\* The attribute writes: a stored field, a redirected or undeclared name.
WriteAttrs == {"id", "object_type"}
WriteValues == {Str("W")}

Op(op, cls, args, kwargs, attr, res, out) ==
    [op |-> op, cls |-> cls, args |-> args, kwargs |-> kwargs, attr |-> attr,
     res |-> res, out |-> out]

(***************************************************************************)
(* The operations on one entity                                            *)
(***************************************************************************)
Init ==
    /\ e1 = None
    /\ e2 = None
    /\ last = Op("none", "", <<>>, <<>>, "", None, None)
    /\ broken = FALSE
    /\ heap = <<List(<<>>)>>
    /\ rs = None
    /\ conf = <<>>
    /\ origin_cache = <<>>
    /\ fact_cache = <<>>
    /\ requests = <<>>
    /\ output = <<>>
    /\ lookups = <<>>
    /\ handled = <<>>

\* e1 = cls(*args, **kwargs)
Construct(cls, args, kwargs) ==
    /\ last.op = "none"
    /\ LET r == New(cls, args, kwargs)
       IN /\ e1' = IF IsExc(r) THEN None ELSE r
          /\ last' = Op("init", cls, args, kwargs, "", r, None)
    /\ UNCHANGED <<e2, broken>>
    /\ UNCHANGED others

\* e1.attr = value
Write(attr, value) ==
    /\ IsEnt(e1)
    /\ e1' = SetAttr(e1, attr, value)
    /\ last' = Op("setattr", e1.cls, <<>>, <<>>, attr, value, None)
    /\ UNCHANGED <<e2, broken>>
    /\ UNCHANGED others

\* e1.data = {}; e1.deserialize(**doc): the tail of get(), add() and rename(),
\* with doc the data of the backend's response.
Load(doc) ==
    /\ IsEnt(e1)
    /\ e1' = Reload(e1, doc)
    /\ broken' = ReloadRaises(e1, doc)
    /\ last' = Op("load", e1.cls, <<>>, doc, "",
                  IF ReloadRaises(e1, doc) THEN Exc(DeserLoop(e1.cls, <<>>, doc, 1).e) ELSE None,
                  None)
    /\ UNCHANGED e2
    /\ UNCHANGED others

\* e1.attr
Read(attr) ==
    /\ IsEnt(e1)
    /\ last' = Op("getattr", e1.cls, <<>>, <<>>, attr, GetAttr(e1, attr), None)
    /\ UNCHANGED <<e1, e2, broken>>
    /\ UNCHANGED others

\* Schema.serialize(e1, exclude_none, to_camel_case)
CallSchemaSerialize(exclude_none, to_camel_case) ==
    /\ IsEnt(e1)
    /\ last' = Op("schema_serialize", e1.cls, <<Bool(exclude_none), Bool(to_camel_case)>>,
                  <<>>, "", SchemaSerialize(e1, exclude_none, to_camel_case), None)
    /\ UNCHANGED <<e1, e2, broken>>
    /\ UNCHANGED others

\* The arguments Fact.meta builds the referenced fact from (lines 616-620):
\* the serialized document, with the id added when the fact has one.
RefArgs(ent, doc) ==
    IF ent.cls = "Fact" /\ ~IsExc(GetAttr(ent, "id")) /\ Truthy(GetAttr(ent, "id"))
    THEN Put(doc.items, "id", GetAttr(ent, "id"))
    ELSE doc.items

\* type(e1)(**e1.serialize()), as Fact.meta builds the referenced fact
RoundTrip ==
    /\ IsEnt(e1)
    /\ LET doc == Serialize(e1)
       IN last' = Op("roundtrip", e1.cls, <<>>, <<>>, "", doc,
                     IF doc.k = "dict" THEN New(e1.cls, <<>>, RefArgs(e1, doc)) ELSE None)
    /\ UNCHANGED <<e1, e2, broken>>
    /\ UNCHANGED others

\* eval(repr(e1))
ReprEval ==
    /\ IsEnt(e1)
    /\ LET r == Repr(e1)
       IN last' = Op("repr", e1.cls, <<>>, <<>>, "", r, IF IsExc(r) THEN None ELSE Eval(r))
    /\ UNCHANGED <<e1, e2, broken>>
    /\ UNCHANGED others

Next ==
    \/ \E cls \in Classes, args \in ArgLists :
            \E kwargs \in Docs(cls, MaxDocLen) : Construct(cls, args, kwargs)
    \/ \E attr \in WriteAttrs, value \in WriteValues : Write(attr, value)
    \/ IsEnt(e1) /\ \E doc \in Responses(e1.cls) : Load(doc)
    \/ \E attr \in {"object", "object_type", "type"} : Read(attr)
    \/ \E exclude_none \in BOOLEAN : CallSchemaSerialize(exclude_none, TRUE)
    \/ RoundTrip
    \/ ReprEval

Spec == Init /\ [][Next]_vars

(***************************************************************************)
(* Two entities of one class, compared and hashed                          *)
(***************************************************************************)
OriginDoc(id) == Dict(<< <<"name", Str("o")>>, <<"id", Str(id)>> >>)

\* The <<key, value>> entries the documents of a compared entity may carry.
PairEntries(cls) ==
    CASE cls = "Origin" ->
            { <<"name", Str("o")>>, <<"name", Str("n")>>,
              <<"id", Str("A")>>, <<"id", Str("B")>>, <<"id", Str("")>> }
      [] cls = "Fact" ->
            { <<"type", Str("seenIn")>>, <<"value", Str("v")>>,
              <<"id", Str("A")>>, <<"id", Str("B")>>, <<"id", Str("")>>,
              <<"origin", OriginDoc("A")>>, <<"origin", OriginDoc("B")>>,
              <<"sourceObject", Dict(<< <<"type", ObjectTypeDoc>>, <<"value", Str("v")>> >>)>> }
      [] cls = "Child" -> { <<"foo", Str("x")>> }

PairClasses == {"Origin", "Fact", "Child"}

PairDocs(cls, n) ==
    UNION { { d \in [1..m -> PairEntries(cls)] :
                \A i, j \in 1..m : i # j => d[i][1] # d[j][1] } : m \in 0..n }

\* x = cls(**kwargs)
MakeFirst(cls, kwargs) ==
    /\ last.op = "none"
    /\ e1' = New(cls, <<>>, kwargs)
    /\ last' = Op("init", cls, <<>>, kwargs, "", None, None)
    /\ UNCHANGED <<e2, broken>>
    /\ UNCHANGED others

\* y = type(x)(**kwargs)
MakeSecond(kwargs) ==
    /\ IsEnt(e1) /\ e2 = None
    /\ e2' = New(e1.cls, <<>>, kwargs)
    /\ last' = Op("init", e1.cls, <<>>, kwargs, "", None, None)
    /\ UNCHANGED <<e1, broken>>
    /\ UNCHANGED others

\* x == y
Compare ==
    /\ IsEnt(e1) /\ IsEnt(e2)
    /\ last' = Op("eq", e1.cls, <<>>, <<>>, "", PyEq(e1, e2), None)
    /\ UNCHANGED <<e1, e2, broken>>
    /\ UNCHANGED others

\* hash(x), hash(y)
HashBoth ==
    /\ IsEnt(e1) /\ IsEnt(e2)
    /\ last' = Op("hash", e1.cls, <<>>, <<>>, "", PyHash(e1), PyHash(e2))
    /\ UNCHANGED <<e1, e2, broken>>
    /\ UNCHANGED others

NextEq ==
    \/ \E cls \in PairClasses : \E kwargs \in PairDocs(cls, MaxDocLen) : MakeFirst(cls, kwargs)
    \/ IsEnt(e1) /\ \E kwargs \in PairDocs(e1.cls, MaxDocLen) : MakeSecond(kwargs)
    \/ Compare
    \/ HashBoth

SpecEq == Init /\ [][NextEq]_vars

(***************************************************************************)
(* Entities that share objects by reference.  The heap holds, by address,  *)
(* the entities a program holds in variables, the nested entities and the  *)
(* lists they store; a store entry Ref(a) is a reference to the object at  *)
(* address a.                                                              *)
(***************************************************************************)
MaxHeap == 6
MaxAppend == 1

Deref(h, v) == IF v.k = "ref" THEN h[v.a] ELSE v
\* The entity with the objects its store refers to in place of the references.
View(h, ent) ==
    [ent EXCEPT !.data = [i \in 1..Len(ent.data) |->
                            <<ent.data[i][1], Deref(h, ent.data[i][2])>>]]

RECURSIVE Place(_, _, _)
\* The heap once a constructor returned ent: every nested entity it built and
\* every copy of a default it made is a new object, and ent is the last one.
Place(h, ent, i) ==
    IF i > Len(ent.data) THEN Append(h, ent)
    ELSE IF ent.data[i][2].k = "ent"
         THEN Place(Append(h, ent.data[i][2]),
                    [ent EXCEPT !.data[i][2] = Ref(Len(h) + 1)], i + 1)
    ELSE IF ent.data[i][2].k = "copy"
         THEN Place(Append(h, h[ent.data[i][2].a]),
                    [ent EXCEPT !.data[i][2] = Ref(Len(h) + 1)], i + 1)
    ELSE Place(h, ent, i + 1)

IsAt(h, a, cls) == h[a].k = "ent" /\ h[a].cls = cls
\* The documents an Origin is built from.
ShareDocs == { << <<"name", Str("o")>> >>, << <<"name", Str("n")>>, <<"id", Str("A")>> >> }

\* o = Origin(**doc)
NewOrigin(doc) ==
    /\ Len(heap) + 1 <= MaxHeap
    /\ heap' = Place(heap, New("Origin", <<>>, doc), 1)
    /\ last' = Op("new", "Origin", <<>>, doc, "", Ref(Len(heap) + 1), None)
    /\ UNCHANGED <<e1, e2, broken, rs, conf, origin_cache, fact_cache, requests, output, lookups, handled>>

\* f = Fact(origin=arg), with arg a document or an Origin instance: one held
\* in a variable, or the origin read from another fact.
NewFact(arg) ==
    /\ Len(heap) + 2 <= MaxHeap
    /\ heap' = Place(heap, New("Fact", <<>>, << <<"origin", arg>> >>), 1)
    /\ last' = Op("new", "Fact", <<>>, << <<"origin", arg>> >>, "", Ref(Len(heap')), None)
    /\ UNCHANGED <<e1, e2, broken, rs, conf, origin_cache, fact_cache, requests, output, lookups, handled>>

\* t = Fact() of src/test/test_schema.py
NewTestFact ==
    /\ Len(heap) + 2 <= MaxHeap
    /\ heap' = Place(heap, New("TestFact", <<>>, <<>>), 1)
    /\ last' = Op("new", "TestFact", <<>>, <<>>, "", Ref(Len(heap')), None)
    /\ UNCHANGED <<e1, e2, broken, rs, conf, origin_cache, fact_cache, requests, output, lookups, handled>>

\* heap[p].origin.name = value
SetNested(p, value) ==
    /\ IsAt(heap, p, "Fact")
    /\ Get(heap[p].data, "origin").k = "ref"
    /\ heap' = [heap EXCEPT ![Get(heap[p].data, "origin").a] =
                                SetAttr(heap[Get(heap[p].data, "origin").a], "name", value)]
    /\ last' = Op("set", "Fact", <<Ref(p)>>, <<>>, "name", value, Get(heap[p].data, "origin"))
    /\ UNCHANGED <<e1, e2, broken, rs, conf, origin_cache, fact_cache, requests, output, lookups, handled>>

\* heap[t].objects.append(value)
AppendObjects(t, value) ==
    /\ IsAt(heap, t, "TestFact")
    /\ Get(heap[t].data, "objects").k = "ref"
    /\ Len(Deref(heap, Get(heap[t].data, "objects")).items) < MaxAppend
    /\ heap' = [heap EXCEPT ![Get(heap[t].data, "objects").a] =
                                List(Append(heap[Get(heap[t].data, "objects").a].items, value))]
    /\ last' = Op("append", "TestFact", <<Ref(t)>>, <<>>, "objects", value,
                  Get(heap[t].data, "objects"))
    /\ UNCHANGED <<e1, e2, broken, rs, conf, origin_cache, fact_cache, requests, output, lookups, handled>>

\* heap[t] == heap[u]
CompareAt(t, u) ==
    /\ heap[t].k = "ent" /\ heap[u].k = "ent" /\ heap[t].cls = heap[u].cls
    /\ last' = Op("eq", heap[t].cls, <<Ref(t), Ref(u)>>, <<>>, "",
                  PyEq(View(heap, heap[t]), View(heap, heap[u])), None)
    /\ UNCHANGED <<e1, e2, broken, heap, rs, conf, origin_cache, fact_cache, requests, output, lookups, handled>>

NextShare ==
    \/ \E doc \in ShareDocs : NewOrigin(doc)
    \/ \E doc \in ShareDocs : NewFact(Dict(doc))
    \/ \E a \in 1..Len(heap) : IsAt(heap, a, "Origin") /\ NewFact(Ref(a))
    \/ NewTestFact
    \/ \E p \in 1..Len(heap) : SetNested(p, Str("W"))
    \/ \E t \in 1..Len(heap) : AppendObjects(t, Str("x"))
    \/ \E t, u \in 1..Len(heap) : t < u /\ CompareAt(t, u)

SpecShare == Init /\ [][NextShare]_vars

(***************************************************************************)
(* act.api.base.ActResultSet                                               *)
(***************************************************************************)
MaxElements == 2
MaxCount == 2

\* A reference to a Config object.
Cfg(a) == [k |-> "cfg", a |-> a]

\* The result set object; response is the document it was built from, which
\* the object does not keep (history).
ResultSet(data, response) ==
    [k |-> "rs", data |-> data,
     size |-> Get(response, "size"), count |-> Get(response, "count"),
     limit |-> Get(response, "limit"), status_code |-> Get(response, "responseCode"),
     response |-> response]
IsResultSet(v) == v.k = "rs"

RECURSIVE DeserAll(_, _, _, _), DeserAllNext(_, _, _, _, _)
\* [deserializer(**d) for d in response["data"]], from element i on, onto acc.
DeserAll(cls, items, i, acc) ==
    IF i > Len(items) THEN List(acc)
    ELSE IF items[i].k # "dict" THEN Exc("TypeError")
    ELSE DeserAllNext(cls, items, i, acc, New(cls, <<>>, items[i].items))
DeserAllNext(cls, items, i, acc, v) ==
    IF IsExc(v) THEN v ELSE DeserAll(cls, items, i + 1, Append(acc, v))

ResultSetOf(elements, response) ==
    IF IsExc(elements) THEN elements ELSE ResultSet(elements.items, response)

\* ActResultSet(response, deserializer, **kwargs): __init__ declares the
\* parameters response and deserializer and no other.
ActResultSetInit(response, cls, kwargs) ==
    IF kwargs # <<>> THEN Exc("TypeError")
    ELSE IF Get(response, "data").k # "list" THEN Exc("ResponseError")
    ELSE ResultSetOf(DeserAll(cls, Get(response, "data").items, 1, <<>>), response)

\* complete only when more was fetched than the platform has.
CompleteStrict(r) == Bool(r.size.n > r.count.n)
\* ActResultSet.complete
Complete(r) == Bool(r.size.n >= r.count.n)
\* ActResultSet.__bool__
ResultSetBool(r) == Bool(r.size.n > 0)
\* ActResultSet.__str__: "No result", or the lines of the elements.
ResultSetStr(r) ==
    IF r.data = <<>> THEN Str("No result") ELSE [k |-> "lines", items |-> r.data]

\* getattr(item, func)(*args) for the operations configure and serialize.
CallOn(item, func, args) ==
    IF item.k # "ent" THEN Exc("AttributeError")
    ELSE IF func = "configure" THEN SetAttr(item, "config", args[1])
    ELSE IF func = "serialize" THEN Serialize(item)
    ELSE Exc("AttributeError")

\* Every element kept as it is, whatever the operation.
CallAllKept(items, func, args, i, acc) == List(items)

RECURSIVE CallAll(_, _, _, _, _), CallAllNext(_, _, _, _, _, _)
\* [getattr(item, func)(*args) for item in self.data], from element i on.
CallAll(items, func, args, i, acc) ==
    IF i > Len(items) THEN List(acc)
    ELSE CallAllNext(items, func, args, i, acc, CallOn(items[i], func, args))
CallAllNext(items, func, args, i, acc, v) ==
    IF IsExc(v) THEN v ELSE CallAll(items, func, args, i + 1, Append(acc, v))

\* The documents of the elements of a response, by the class they are for.
ElementDocs(cls) ==
    CASE cls = "Fact" ->
            { Dict(<< <<"type", Str("seenIn")>>, <<"id", Str("A")>> >>),
              Dict(<< <<"value", Str("v")>> >>) }
      [] cls = "Object" ->
            { Dict(<< <<"value", Str("v")>>, <<"id", Str("A")>> >>),
              Dict(<< <<"direction", Dict(<<>>)>> >>) }
ResultClasses == {"Fact", "Object"}
\* The data sections: a list of at most n documents, or no list.
DataSections(cls, n) ==
    { List(d) : d \in UNION { [1..m -> ElementDocs(cls)] : m \in 0..n } } \cup {None}
Response(data, size, count) ==
    << <<"responseCode", Num(200)>>, <<"limit", Num(25)>>, <<"count", Num(count)>>,
       <<"size", Num(size)>>, <<"data", data>> >>

\* rs = ActResultSet(response, cls, **kwargs): without keywords as
\* get_comments and the searches of Act call it, with config=... as
\* Fact.get_meta (fact.py:652) and Object.facts (obj.py:99) call it.
MakeResultSetAs(response, cls, kwargs, r) ==
    /\ rs' = IF IsExc(r) THEN None ELSE r
    /\ last' = Op("resultset", cls, <<>>, kwargs, "", r, Dict(response))
MakeResultSet(response, cls, kwargs) ==
    /\ last.op = "none"
    /\ MakeResultSetAs(response, cls, kwargs, ActResultSetInit(response, cls, kwargs))
    /\ UNCHANGED <<e1, e2, broken, heap, conf, origin_cache, fact_cache, requests, output, lookups, handled>>

\* rs(func, *args)
BulkApplyAs(func, args, r) ==
    /\ rs' = IF IsExc(r) THEN rs ELSE [rs EXCEPT !.data = r.items]
    /\ last' = Op("call", "", args, <<>>, func, IF IsExc(r) THEN r ELSE None, List(rs.data))
BulkApply(func, args) ==
    /\ IsResultSet(rs)
    /\ BulkApplyAs(func, args, CallAll(rs.data, func, args, 1, <<>>))
    /\ UNCHANGED <<e1, e2, broken, heap, conf, origin_cache, fact_cache, requests, output, lookups, handled>>

\* len(rs), rs[i], list(iter(rs)), rs.complete, bool(rs), str(rs)
ReadResultSet(op, i) ==
    /\ IsResultSet(rs)
    /\ op # "getitem" => i = 0
    /\ last' = Op(op, "", <<Num(i)>>, <<>>, "",
                  CASE op = "len" -> Num(Len(rs.data))
                    [] op = "getitem" ->
                          IF i < Len(rs.data) THEN rs.data[i + 1] ELSE Exc("IndexError")
                    [] op = "iter" -> List(rs.data)
                    [] op = "complete" -> Complete(rs)
                    [] op = "bool" -> ResultSetBool(rs)
                    [] op = "str" -> ResultSetStr(rs),
                  None)
    /\ UNCHANGED <<e1, e2, broken, heap, rs, conf, origin_cache, fact_cache, requests, output, lookups, handled>>

ResultReads == {"len", "getitem", "iter", "complete", "bool", "str"}

NextResult ==
    \/ \E cls \in ResultClasses, size, count \in 0..MaxCount :
          \E data \in DataSections(cls, MaxElements), kwargs \in {<<>>, << <<"config", Cfg(1)>> >>} :
              MakeResultSet(Response(data, size, count), cls, kwargs)
    \/ \E func \in {"configure", "serialize"} : BulkApply(func, IF func = "configure" THEN <<Cfg(1)>> ELSE <<>>)
    \/ \E op \in ResultReads, i \in 0..1 : ReadResultSet(op, i)

SpecResult == Init /\ [][NextResult]_vars

(***************************************************************************)
(* act.api.base: Config, origin_map and origin_lookup_serializer           *)
(***************************************************************************)
MaxConfigs == 2
MaxLookups == 2
\* functools.lru_cache(maxsize=128) on origin_map
origin_map_maxsize == 128

\* The origins the backend at url knows: <<name, id>>, as origin_map returns
\* them from GET v1/origin.
Backend(url) ==
    CASE url = Str("http://a") -> << <<Str("o"), Str("A")>> >>
      [] url = Str("http://b") -> << <<Str("o"), Str("B")>>, <<Str("n"), Str("A")>> >>
      [] OTHER -> <<>>
BaseUrls == {None, Str("http://a"), Str("http://b")}

\* A cache that evicts nothing.
LruPutUnbounded(cache, maxsize, key, value) == Append(cache, <<key, value>>)
\* The entries of an lru_cache, least recently used first.
LruPut(cache, maxsize, key, value) ==
    IF Len(cache) >= maxsize THEN Append(Tail(cache), <<key, value>>)
    ELSE Append(cache, <<key, value>>)
LruTouch(cache, key) ==
    Append(SelectSeq(cache, LAMBDA entry : entry[1] # key), <<key, Get(cache, key)>>)

\* A cache that never has the key.
NeverCached(cache, key) == FALSE
\* The cache has an entry for the key.  Config defines neither __eq__ nor
\* __hash__: the key of origin_map is the Config object, its address.
Cached(cache, key) == Has(cache, key)

\* The id as given, whatever the map says.
ResolveTrusting(origin, M) ==
    IF ~Truthy(origin) THEN None
    ELSE IF Truthy(GetAttr(origin, "id")) THEN GetAttr(origin, "id")
    ELSE IF Truthy(GetAttr(origin, "name"))
         THEN (IF ~Truthy(Get(M, GetAttr(origin, "name"))) THEN Exc("OriginDoesNotExist")
               ELSE Get(M, GetAttr(origin, "name")))
    ELSE None

\* origin_lookup_serializer, lines 370-392, with M what origin_map(config)
\* returns (asked for on lines 379 and 385 only).
Resolve(origin, M) ==
    IF ~Truthy(origin) THEN None
    ELSE IF Truthy(GetAttr(origin, "id")) /\ ~Truthy(GetAttr(origin, "name"))
         THEN GetAttr(origin, "id")
    ELSE IF Truthy(GetAttr(origin, "name")) /\ ~Truthy(GetAttr(origin, "id"))
         THEN (IF ~Truthy(Get(M, GetAttr(origin, "name"))) THEN Exc("OriginDoesNotExist")
               ELSE Get(M, GetAttr(origin, "name")))
    ELSE IF Truthy(GetAttr(origin, "id")) /\ Truthy(GetAttr(origin, "name"))
         THEN (IF PyEq(Get(M, GetAttr(origin, "name")), GetAttr(origin, "id")) = True
               THEN GetAttr(origin, "id")
               ELSE Exc("OriginMismatch"))
    ELSE None
\* The lookup calls origin_map.
NeedsMap(origin) == Truthy(origin) /\ Truthy(GetAttr(origin, "name"))

\* The origins looked up: None, or an Origin with or without name and id.
LookupOrigins ==
    {None} \cup
    { New("Origin", <<>>, doc) :
        doc \in { <<>>, << <<"id", Str("A")>> >>, << <<"id", Str("B")>> >>,
                  << <<"name", Str("o")>> >>, << <<"name", Str("x")>> >>,
                  << <<"name", Str("o")>>, <<"id", Str("A")>> >>,
                  << <<"name", Str("o")>>, <<"id", Str("B")>> >>,
                  << <<"name", Str("x")>>, <<"id", Str("A")>> >>,
                  << <<"name", Str("")>>, <<"id", Str("A")>> >> } }

\* c = Config(url, user_id)
NewConfig(url) ==
    /\ Len(conf) < MaxConfigs
    /\ conf' = Append(conf, [act_baseurl |-> url])
    /\ last' = Op("config", "", <<url>>, <<>>, "", Cfg(Len(conf) + 1), None)
    /\ UNCHANGED <<e1, e2, broken, heap, rs, origin_cache, fact_cache, requests, output, lookups, handled>>

\* origin_lookup_serializer(origin, conf[c]); ok: the request origin_map
\* sends is answered (else request raises ResponseError); a lookup that
\* sends none has no request to fail.
Lookup(origin, c, ok) ==
    /\ c \in 1..Len(conf)
    /\ Len(lookups) < MaxLookups
    /\ ok \/ (Truthy(conf[c].act_baseurl) /\ NeedsMap(origin) /\ ~Cached(origin_cache, c))
    /\ LET url == conf[c].act_baseurl
           needs == Truthy(url) /\ NeedsMap(origin)
           issued == needs /\ ~Cached(origin_cache, c)
           M == IF issued THEN Backend(url) ELSE Get(origin_cache, c)
       IN /\ last' = Op("lookup", "", <<origin, Cfg(c)>>, <<>>, "",
                        IF ~Truthy(url)
                        THEN (IF origin = None THEN Exc("AttributeError") ELSE Serialize(origin))
                        ELSE IF issued /\ ~ok THEN Exc("ResponseError")
                        ELSE Resolve(origin, IF needs THEN M ELSE <<>>),
                        Bool(issued))
          /\ requests' = IF issued THEN Append(requests, <<"GET", url, "v1/origin">>)
                         ELSE requests
          /\ origin_cache' = IF issued /\ ok THEN LruPut(origin_cache, origin_map_maxsize, c, M)
                             ELSE IF needs /\ ~issued THEN LruTouch(origin_cache, c)
                             ELSE origin_cache
          /\ lookups' = IF needs
                        THEN Append(lookups, [config |-> c, url |-> url, issued |-> issued,
                                              answered |-> (~issued \/ ok)])
                        ELSE lookups
    /\ UNCHANGED <<e1, e2, broken, heap, rs, conf, fact_cache, output, handled>>

NextOrigin ==
    \/ \E url \in BaseUrls : NewConfig(url)
    \/ \E origin \in LookupOrigins, c \in 1..MaxConfigs, ok \in BOOLEAN : Lookup(origin, c, ok)

SpecOrigin == Init /\ [][NextOrigin]_vars

(***************************************************************************)
(* origin_map called with many Config objects: the first one, conf[1], and *)
(* the others, each looked up before the next is made.  Every request is   *)
(* answered.  lookups holds the other Config objects looked up since the   *)
(* last lookup with conf[1].                                               *)
(***************************************************************************)
\* The Config objects made besides conf[1].
MaxOthers == 128

\* c = Config("http://a", user_id)
AnotherConfig ==
    /\ Len(conf) < 1 + MaxOthers
    /\ Len(conf) = 0 \/ Cached(origin_cache, Len(conf))
    /\ conf' = Append(conf, [act_baseurl |-> Str("http://a")])
    /\ last' = Op("config", "", <<Cfg(Len(conf) + 1)>>, <<>>, "", None, None)
    /\ UNCHANGED <<e1, e2, broken, heap, rs, origin_cache, fact_cache, requests, output, lookups, handled>>

\* origin_map(conf[c]) through its lru_cache.
OriginMap(c) ==
    /\ c \in 1..Len(conf)
    /\ last' = Op("origin_map", "", <<Cfg(c)>>, lookups, "", None,
                  Bool(~Cached(origin_cache, c)))
    /\ requests' = IF Cached(origin_cache, c) THEN requests
                   ELSE Append(requests, <<"GET", conf[c].act_baseurl, "v1/origin">>)
    /\ origin_cache' = IF Cached(origin_cache, c) THEN LruTouch(origin_cache, c)
                       ELSE LruPut(origin_cache, origin_map_maxsize, c,
                                   Backend(conf[c].act_baseurl))
    /\ lookups' = IF c = 1 THEN <<>>
                  ELSE IF \E i \in 1..Len(lookups) : lookups[i] = Cfg(c) THEN lookups
                  ELSE Append(lookups, Cfg(c))
    /\ UNCHANGED <<e1, e2, broken, heap, rs, conf, fact_cache, output, handled>>

NextLru ==
    \/ AnotherConfig
    \/ \E c \in {1, Len(conf)} : OriginMap(c)

SpecLru == Init /\ [][NextLru]_vars

(***************************************************************************)
(* act.api.helpers.handle_fact and its lru_cache.  An entry of fact_cache  *)
(* is <<key, None>>; the key lru_cache makes of a call holds the           *)
(* positional arguments, then the keyword arguments by name: the same      *)
(* arguments passed by position and by keyword make different keys.        *)
(***************************************************************************)
MaxHandled == 2
\* functools.lru_cache(maxsize=4096) on handle_fact
handle_fact_maxsize == 4096

\* The key with the fact replaced by its hash: what the hash of a key
\* depends on.
KeyHash(args, kwds) == [args |-> [args EXCEPT ![1] = PyHash(args[1])], kwds |-> kwds]
\* functools._make_key(args, kwds, typed=False): a _HashedSeq, which keeps
\* the hash it computed when it was made.
HashedSeq(args, kwds) == [args |-> args, kwds |-> kwds, hashvalue |-> KeyHash(args, kwds)]
MakeKey(shape, fact, output_format, output_filehandle) ==
    IF shape = "positional"
    THEN HashedSeq(<<fact, Str(output_format), output_filehandle>>, <<>>)
    ELSE HashedSeq(<<fact>>, << <<"output_format", Str(output_format)>>,
                                <<"output_filehandle", output_filehandle>> >>)

\* The facts handled: with and without an id, and with an origin.
HandledFact(value, more) ==
    New("Fact", <<>>, << <<"type", Str("seenIn")>>, <<"value", Str(value)>> >> \o more)
FactV == HandledFact("v", <<>>)
FactV1 == HandledFact("v", << <<"id", Str("1")>> >>)
FactV2 == HandledFact("v", << <<"id", Str("2")>> >>)
FactW == HandledFact("w", <<>>)
FactO == HandledFact("v", << <<"origin", New("Origin", <<>>, << <<"name", Str("o")>> >>)>> >>)
\* The calls made: the fact, how the other two arguments are passed, the
\* output format and the file handle.
HandleCall(fact, shape, output_format, output_filehandle) ==
    [fact |-> fact, shape |-> shape, output_format |-> output_format,
     output_filehandle |-> output_filehandle,
     key |-> MakeKey(shape, fact, output_format, output_filehandle)]
Calls ==
    { HandleCall(FactV, "positional", "json", None),
      HandleCall(FactV, "keyword", "json", None),
      HandleCall(FactV, "positional", "xml", None),
      HandleCall(FactV, "positional", "json", Str("fh")),
      HandleCall(FactV1, "positional", "json", None),
      HandleCall(FactV2, "positional", "json", None),
      HandleCall(FactW, "keyword", "str", Str("fh")),
      HandleCall(FactO, "positional", "json", None) }
\* The config of the fact handled: None (never configured), or a Config
\* without and with an act_baseurl.
FactConfigs == {None, [k |-> "config", act_baseurl |-> None],
                [k |-> "config", act_baseurl |-> Str("http://a")]}

\* The entries whose key has the hash of key: those the lookup compares with ==.
Candidates(cache, key) ==
    { i \in 1..Len(cache) : cache[i][1].hashvalue = key.hashvalue }
\* The entries found for key: stored key == key, which compares the facts
\* with Fact.__eq__.
Found(cache, key) ==
    { i \in Candidates(cache, key) : PyEq(cache[i][1].args[1], key.args[1]) = True }
\* The comparison with a stored key raises.
Raising(cache, key) ==
    { i \in Candidates(cache, key) : IsExc(PyEq(cache[i][1].args[1], key.args[1])) }
TouchAt(cache, i) ==
    Append(SelectSeq([j \in 1..Len(cache) |-> <<j, cache[j]>>], LAMBDA e : e[1] # i), <<i, cache[i]>>)
Entries2(indexed) == [j \in 1..Len(indexed) |-> indexed[j][2]]

\* The body of handle_fact, lines 48-61, for a fact whose config is config:
\* the result, or the exception.
HandleBody(config, output_format, ok) ==
    IF config = None THEN Exc("AttributeError")
    ELSE IF Truthy(config.act_baseurl)
         THEN (IF ok THEN None ELSE Exc("ResponseError"))
    ELSE IF output_format \in {"json", "str"} THEN None
    ELSE Exc("ArgumentError")
Submits(config) == config # None /\ Truthy(config.act_baseurl)
Writes(config, output_format) ==
    config # None /\ ~Truthy(config.act_baseurl) /\ output_format \in {"json", "str"}

\* The lookup of key in the cache: the key is unhashable, the comparison
\* with a stored key raises, the entry at index at is found, or none is.
Probe(cache, key) ==
    IF IsExc(key.hashvalue.args[1]) THEN [status |-> "unhashable", res |-> key.hashvalue.args[1]]
    ELSE IF Raising(cache, key) # {}
         THEN [status |-> "raising",
               res |-> PyEq(cache[CHOOSE i \in Raising(cache, key) : TRUE][1].args[1], key.args[1])]
    ELSE IF Found(cache, key) # {}
         THEN [status |-> "hit", res |-> None, at |-> CHOOSE i \in Found(cache, key) : TRUE]
    ELSE [status |-> "miss"]

\* The call with the outcome of the cache lookup and, on a miss, of the body.
HandleWith(call, config, probe, res) ==
    /\ last' = Op("handle_fact", "Fact",
                  <<call.fact, Str(call.output_format), call.output_filehandle>>,
                  <<>>, call.shape, res, Bool(probe.status = "miss"))
    /\ requests' = IF probe.status = "miss" /\ Submits(config)
                   THEN Append(requests, <<"POST", config.act_baseurl, "v1/fact">>)
                   ELSE requests
    /\ output' = IF probe.status = "miss" /\ Writes(config, call.output_format)
                 THEN Append(output, <<IF Truthy(call.output_filehandle)
                                       THEN call.output_filehandle
                                       ELSE Str("sys.stdout"),
                                       call.output_format, Serialize(call.fact)>>)
                 ELSE output
    /\ fact_cache' = IF probe.status = "hit" THEN Entries2(TouchAt(fact_cache, probe.at))
                     ELSE IF probe.status = "miss" /\ ~IsExc(res)
                     THEN LruPut(fact_cache, handle_fact_maxsize, call.key, None)
                     ELSE fact_cache
    /\ handled' = IF probe.status = "miss" /\ ~IsExc(res)
                  THEN Append(handled, <<call.fact, Str(call.output_format),
                                         call.output_filehandle>>)
                  ELSE handled

\* handle_fact(fact, output_format, output_filehandle), or the same with the
\* two passed by keyword, for a fact configured with config; ok:
\* fact_copy.add() returns (else it raises).
HandleProbed(call, config, ok, probe) ==
    HandleWith(call, config, probe,
               IF probe.status = "miss" THEN HandleBody(config, call.output_format, ok)
               ELSE probe.res)
HandleFact(call, config, ok) ==
    /\ Len(requests) + Len(output) < MaxHandled
    /\ HandleProbed(call, config, ok, Probe(fact_cache, call.key))
    /\ UNCHANGED <<e1, e2, broken, heap, rs, conf, origin_cache, lookups>>

NextHandle ==
    \E call \in Calls, config \in FactConfigs, ok \in BOOLEAN : HandleFact(call, config, ok)

SpecHandle == Init /\ [][NextHandle]_vars

(***************************************************************************)
(* The operations that address the backend by an id: AbstractFact.get,     *)
(* get_acl, get_comments, add_comment, retract; Fact.get_meta;             *)
(* FactType.add_object_bindings, add_fact_bindings, rename; Origin.get,    *)
(* delete; MetaFact.add.                                                   *)
(***************************************************************************)
MaxRequests == 2

ByIdClasses == {"Origin", "FactType", "Fact", "MetaFact"}
ByIdOps(cls) ==
    CASE cls = "Origin" -> {"get", "delete"}
      [] cls = "FactType" -> {"add_object_bindings", "add_fact_bindings", "rename"}
      [] cls = "Fact" -> {"get", "get_acl", "get_comments", "add_comment", "get_meta", "retract"}
      [] cls = "MetaFact" -> {"add"}
      [] OTHER -> {}
\* The operations that end in self.data = {}; self.deserialize(**data).
Reloading == {"get", "delete", "add_object_bindings", "add_fact_bindings", "rename", "add"}

\* An object binding as the backend returns it with a fact type.
BindingDoc ==
    << <<"sourceObjectType", Dict(<< <<"name", Str("ipv4")>> >>)>>,
       <<"destinationObjectType", Dict(<< <<"name", Str("report")>> >>)>> >>
\* The entries of the documents the entities are built from.
ByIdEntries(cls) ==
    CASE cls = "Origin" -> { <<"name", Str("o")>>, <<"id", Str("A")>>, <<"id", Str("")>> }
      [] cls = "FactType" ->
            { <<"name", Str("seenIn")>>, <<"id", Str("A")>>,
              <<"relevantObjectBindings", List(<<Dict(BindingDoc)>>)>>,
              <<"relevantFactBindings", List(<<>>)>> }
      [] cls = "Fact" -> { <<"type", Str("seenIn")>>, <<"value", Str("v")>>, <<"id", Str("A")>> }
      [] cls = "MetaFact" ->
            { <<"id", Str("M")>>, <<"value", Str("v")>>,
              <<"in_reference_to", Dict(<< <<"id", Str("A")>> >>)>>,
              <<"in_reference_to", Dict(<< <<"value", Str("v")>> >>)>> }
ByIdDocs(cls, n) ==
    UNION { { d \in [1..m -> ByIdEntries(cls)] :
                \A i, j \in 1..m : i # j => d[i][1] # d[j][1] } : m \in 0..n }
\* The data of the backend's response: an entry of the entity's class, an
\* entry no class declares, a source object that deserialize raises on, or
\* none.
ByIdResponses(cls) ==
    {<<>>, << <<"foo", Str("x")>> >>,
     << <<"sourceObject", Dict(<< <<"object", None>> >>)>> >>}
        \cup { <<entry>> : entry \in ByIdEntries(cls) }
\* The argument of the operation: reply_to, add_bindings or name.
ByIdArgs(op) ==
    CASE op = "add_comment" ->
            {None, Str("x"), Str("00000000-0000-0000-0000-000000000000")}
      [] op = "add_object_bindings" ->
            {List(<<>>), List(<<New("RelevantObjectBindings", <<>>, <<>>)>>),
             List(<<New("RelevantObjectBindings", <<>>, BindingDoc)>>)}
      [] op = "add_fact_bindings" ->
            {List(<<>>),
             List(<<New("RelevantFactBindings", <<>>,
                        << <<"name", Str("m")>>, <<"id", Str("B")>> >>)>>)}
      [] op = "rename" -> {Str("n")}
      [] OTHER -> {None}
\* re.search(UUID_MATCH, s), for the strings passed.
MatchesUuid(s) == s = "00000000-0000-0000-0000-000000000000"

\* Every operation but get_acl tests the id.
RequireIdButAcl(ent, op) ==
    IF op = "get_acl" THEN None
    ELSE IF IsExc(GetAttr(ent, "id")) THEN GetAttr(ent, "id")
    ELSE IF ~Truthy(GetAttr(ent, "id")) THEN Exc("MissingField")
    ELSE None
\* `if not self.id: raise MissingField(...)`, the first statement of every
\* one of the operations (retract: `if self.id: ... else: raise`); for
\* MetaFact.add the two tests of lines 684-688.  None: the id is there.
RequireId(ent, op) ==
    IF ent.cls = "MetaFact"
    THEN (IF IsExc(GetAttr(ent, "in_reference_to")) THEN GetAttr(ent, "in_reference_to")
          ELSE IF ~Truthy(GetAttr(ent, "in_reference_to")) THEN Exc("MissingField")
          ELSE IF IsExc(GetAttr(GetAttr(ent, "in_reference_to"), "id"))
               THEN GetAttr(GetAttr(ent, "in_reference_to"), "id")
          ELSE IF ~Truthy(GetAttr(GetAttr(ent, "in_reference_to"), "id"))
               THEN Exc("MissingField")
          ELSE None)
    ELSE IF IsExc(GetAttr(ent, "id")) THEN GetAttr(ent, "id")
    ELSE IF ~Truthy(GetAttr(ent, "id")) THEN Exc("MissingField")
    ELSE None

\* set(existing) and `binding not in existing_bindings` hash the bindings.
Unhashable(items) == \E i \in 1..Len(items) : IsExc(PyHash(items[i]))
\* `binding in existing_bindings`: the members of the set with the hash of
\* binding are compared with it by __eq__, which may raise; the bindings
\* asked for are other objects than the ones the fact type holds.
RECURSIVE InBindings(_, _, _), InNext(_, _, _, _)
InBindings(existing, binding, i) ==
    IF i > Len(existing) THEN False
    ELSE IF PyHash(existing[i]) # PyHash(binding) THEN InBindings(existing, binding, i + 1)
    ELSE InNext(existing, binding, i, PyEq(existing[i], binding))
InNext(existing, binding, i, eq) ==
    IF eq = False THEN InBindings(existing, binding, i + 1) ELSE eq
\* [binding for binding in add_bindings if binding not in existing_bindings]:
\* the exception of the first comparison that raises, or None.
BindingsRaise(existing, add_bindings) ==
    IF \E j \in 1..Len(add_bindings) : IsExc(InBindings(existing, add_bindings[j], 1))
    THEN LET j == CHOOSE j \in 1..Len(add_bindings) :
                    /\ IsExc(InBindings(existing, add_bindings[j], 1))
                    /\ \A h \in 1..(j - 1) : ~IsExc(InBindings(existing, add_bindings[h], 1))
         IN InBindings(existing, add_bindings[j], 1)
    ELSE None
\* The list it gives when no comparison raises.
NewBindings(existing, add_bindings) ==
    SelectSeq(add_bindings, LAMBDA b : InBindings(existing, b, 1) = False)
Done == [k |-> "done"]
\* What the operation does between the test of the id and the request: an
\* exception, Done when it returns without a request, None when it goes on.
BeforeRequest(ent, op, arg, existing) ==
    CASE op = "add_comment" ->
            IF Truthy(arg) /\ ~MatchesUuid(arg.s) THEN Exc("ValidationError") ELSE None
      [] op \in {"add_object_bindings", "add_fact_bindings"} ->
            IF IsExc(existing) THEN existing
            ELSE IF existing.k # "list" THEN Exc("TypeError")
            ELSE IF Unhashable(existing.items) \/ Unhashable(arg.items) THEN Exc("TypeError")
            ELSE IF IsExc(BindingsRaise(existing.items, arg.items))
                 THEN BindingsRaise(existing.items, arg.items)
            ELSE IF NewBindings(existing.items, arg.items) = <<>> THEN Done
            ELSE None
      [] op = "add" -> IF IsExc(Serialize(ent)) THEN Serialize(ent) ELSE None
      [] OTHER -> None
Existing(ent, op) ==
    IF op = "add_object_bindings" THEN GetAttr(ent, "relevant_object_bindings")
    ELSE IF op = "add_fact_bindings" THEN GetAttr(ent, "relevant_fact_bindings")
    ELSE None
Precheck(ent, op, arg, required) ==
    IF required # None THEN required ELSE BeforeRequest(ent, op, arg, Existing(ent, op))

\* The request the operation sends: the method, the uri and the id in it.
RequestOf(ent, op) ==
    CASE op = "get" -> <<"GET", ent.cls, GetAttr(ent, "id"), "">>
      [] op = "delete" -> <<"DELETE", ent.cls, GetAttr(ent, "id"), "">>
      [] op = "get_acl" -> <<"GET", ent.cls, GetAttr(ent, "id"), "access">>
      [] op = "get_comments" -> <<"GET", ent.cls, GetAttr(ent, "id"), "comments">>
      [] op = "add_comment" -> <<"POST", ent.cls, GetAttr(ent, "id"), "comments">>
      [] op = "get_meta" -> <<"GET", ent.cls, GetAttr(ent, "id"), "meta">>
      [] op = "retract" -> <<"POST", ent.cls, GetAttr(ent, "id"), "retract">>
      [] op = "add" -> <<"POST", "Fact", GetAttr(GetAttr(ent, "in_reference_to"), "id"), "meta">>
      [] OTHER -> <<"PUT", ent.cls, GetAttr(ent, "id"), "">>
\* What the operation returns from the data of the response, when it does
\* not reload the entity.
ResultOf(op, doc) ==
    CASE op = "get_acl" -> Dict(doc)
      [] op = "get_comments" ->
            ActResultSetInit(Response(List(<<Dict(<< <<"comment", Str("c")>> >>)>>), 1, 1),
                             "Comment", <<>>)
      [] op = "get_meta" ->
            ActResultSetInit(Response(List(<<Dict(doc)>>), 1, 1), "MetaFact",
                             << <<"config", None>> >>)
      [] op = "retract" -> New("MetaFact", <<>>, doc)
      [] OTHER -> None

\* The operation with the outcome of what precedes the request.
ByIdStep(op, arg, doc, ok, pre) ==
    /\ requests' = IF pre = None THEN Append(requests, RequestOf(e1, op)) ELSE requests
    /\ e1' = IF pre = None /\ ok /\ op \in Reloading THEN Reload(e1, doc) ELSE e1
    /\ broken' = IF pre = None /\ ok /\ op \in Reloading THEN ReloadRaises(e1, doc) ELSE broken
    /\ last' = Op("byid", e1.cls, <<arg>>, doc, op,
                  IF IsExc(pre) THEN pre
                  ELSE IF pre = Done THEN None
                  ELSE IF ~ok THEN Exc("ResponseError")
                  ELSE IF op \in Reloading
                       THEN (IF ReloadRaises(e1, doc)
                             THEN Exc(DeserLoop(e1.cls, <<>>, doc, 1).e) ELSE None)
                  ELSE ResultOf(op, doc),
                  Bool(pre = None))

\* e1.op(arg); ok: the request is answered, with doc as its data (else
\* request raises ResponseError).
ById(op, arg, doc, ok) ==
    /\ IsEnt(e1)
    /\ op \in ByIdOps(e1.cls)
    /\ Len(requests) < MaxRequests
    /\ ByIdStep(op, arg, doc, ok, Precheck(e1, op, arg, RequireId(e1, op)))
    /\ UNCHANGED <<e2, heap, rs, conf, origin_cache, fact_cache, output, lookups, handled>>

NextById ==
    \/ \E cls \in ByIdClasses : \E kwargs \in ByIdDocs(cls, MaxDocLen) : MakeFirst(cls, kwargs)
    \/ IsEnt(e1) /\ \E op \in ByIdOps(e1.cls) : \E arg \in ByIdArgs(op) :
            \E doc \in ByIdResponses(e1.cls), ok \in BOOLEAN : ById(op, arg, doc, ok)

SpecById == Init /\ [][NextById]_vars

(***************************************************************************)
(* act.api.fact: AbstractFact.__str__, Fact.source, Fact.destination,      *)
(* fact_chain_seed and fact_chain.  The text of a str is a TLA+ string:    *)
(* \o concatenates and SubSeq slices.                                      *)
(***************************************************************************)
\* "{}".format(v)
Format(v) == CASE v.k = "str" -> v.s [] v.k = "none" -> "None" [] OTHER -> "?"

\* s.startswith(p)
StartsWith(s, p) == Len(s) >= Len(p) /\ SubSeq(s, 1, Len(p)) = p

\* "({}/{})".format(obj.type.name, obj.value)
ObjectText(obj) ==
    LET type == GetAttr(obj, "type")
    IN IF ~IsEnt(type) THEN Exc("AttributeError")
       ELSE Str("(" \o Format(GetAttr(type, "name")) \o "/" \o Format(GetAttr(obj, "value")) \o ")")

\* The four parts of AbstractFact.__str__, each the text it adds to out.
SourcePart(fact, text) ==
    IF ~Truthy(GetAttr(fact, "source_object")) THEN Str("")
    ELSE IF IsExc(text) THEN text
    ELSE Str(text.s \o " -")
TypePart(fact) ==
    LET type == GetAttr(fact, "type")
    IN IF ~Truthy(type) THEN Str("")
       ELSE IF ~IsEnt(type) THEN Exc("AttributeError")
       ELSE Str("[" \o Format(GetAttr(type, "name")))
ValuePart(fact) ==
    LET value == GetAttr(fact, "value")
    IN IF ~Truthy(value) THEN Str("")
       ELSE IF value.k # "str" THEN Exc("AttributeError")
       ELSE IF StartsWith(value.s, "-") THEN Str("")
       ELSE Str("/" \o value.s)
DestinationPartOneWay(fact, text) ==
    IF ~Truthy(GetAttr(fact, "destination_object")) THEN Str("")
    ELSE IF IsExc(text) THEN text
    ELSE Str("-> " \o text.s)
DestinationPart(fact, text) ==
    IF ~Truthy(GetAttr(fact, "destination_object")) THEN Str("")
    ELSE IF IsExc(text) THEN text
    ELSE Str((IF Truthy(GetAttr(fact, "bidirectional_binding")) THEN "-" ELSE "->")
             \o " " \o text.s)

\* "".join(parts), or the first exception a part raised.
Joined(parts) ==
    IF \E i \in 1..Len(parts) : IsExc(parts[i])
    THEN parts[CHOOSE i \in 1..Len(parts) :
                   IsExc(parts[i]) /\ \A j \in 1..(i - 1) : ~IsExc(parts[j])]
    ELSE Str(parts[1].s \o parts[2].s \o parts[3].s \o parts[4].s \o parts[5].s)

\* str(fact): AbstractFact.__str__.
FactStr(fact) ==
    Joined(<<SourcePart(fact, IF IsEnt(GetAttr(fact, "source_object"))
                              THEN ObjectText(GetAttr(fact, "source_object")) ELSE None),
             TypePart(fact), ValuePart(fact), Str("]"),
             DestinationPart(fact, IF IsEnt(GetAttr(fact, "destination_object"))
                                   THEN ObjectText(GetAttr(fact, "destination_object"))
                                   ELSE None)>>)

\* self.data[attr] = Object(*args, **kwargs), and the test that follows it:
\* the fact afterwards and what the call returns or raises.
BindObject(fact, attr, obj) ==
    IF IsExc(obj) THEN [fact |-> fact, res |-> obj]
    ELSE [fact |-> [fact EXCEPT !.data = Put(fact.data, attr, obj)],
          res |-> IF ~Truthy(GetAttr(obj, "id"))
                     /\ ~(Truthy(GetAttr(obj, "type")) /\ Truthy(GetAttr(obj, "value")))
                  THEN Exc("MissingField") ELSE None]
\* Fact.source(*args, **kwargs)
source(fact, args, kwargs) == BindObject(fact, "source_object", New("Object", args, kwargs))
\* Fact.destination(*args, **kwargs)
destination(fact, args, kwargs) ==
    BindObject(fact, "destination_object", New("Object", args, kwargs))

\* The characters of the texts in the order of their code points.
CodePoints ==
    <<" ", "(", ")", "*", "-", ".", "/", "0", "1", "2", "3", "4", "5", "6", "7", "8", "9",
      ":", ">">> \o UpperAlpha \o <<"[", "]", "_">> \o LowerAlpha
Ord(c) == CHOOSE i \in 1..Len(CodePoints) : CodePoints[i] = c

RECURSIVE StrLess(_, _, _)
\* s < t for two str, comparing from index i on.
StrLess(s, t, i) ==
    IF i > Len(t) THEN FALSE
    ELSE IF i > Len(s) THEN TRUE
    ELSE IF SubSeq(s, i, i) = SubSeq(t, i, i) THEN StrLess(s, t, i + 1)
    ELSE Ord(SubSeq(s, i, i)) < Ord(SubSeq(t, i, i))

RECURSIVE Insert(_, _, _)
\* strs, sorted, with s put after the texts it is not less than, from index i on.
Insert(strs, s, i) ==
    IF i > Len(strs) THEN Append(strs, s)
    ELSE IF StrLess(s, strs[i], 1)
         THEN SubSeq(strs, 1, i - 1) \o <<s>> \o SubSeq(strs, i, Len(strs))
    ELSE Insert(strs, s, i + 1)
RECURSIVE Sorted(_, _, _)
\* sorted(strs), from index i on, onto acc.
Sorted(strs, i, acc) ==
    IF i > Len(strs) THEN acc ELSE Sorted(strs, i + 1, Insert(acc, strs[i], 1))
RECURSIVE JoinLines(_, _)
\* "\n".join(strs), from index i on.
JoinLines(strs, i) ==
    IF i > Len(strs) THEN ""
    ELSE IF i = Len(strs) THEN strs[i]
    ELSE strs[i] \o "\n" \o JoinLines(strs, i + 1)

\* fact.source_object.value / fact.destination_object.value
ObjectValue(fact, attr) ==
    IF IsEnt(GetAttr(fact, attr)) THEN GetAttr(GetAttr(fact, attr), "value")
    ELSE Exc("AttributeError")
\* Both objects of a fact, the source first.
Ends == <<"source_object", "destination_object">>
\* len(known_objects): the objects whose value is not "*", counted once for
\* each fact of the tuple that holds them.
Known(facts) ==
    Cardinality({ p \in (1..Len(facts)) \X {1, 2} : ObjectValue(facts[p[1]], Ends[p[2]]) # Str("*") })

\* fact_chain_seed(*facts), given the str of every fact.
SeedOf(facts, strs) ==
    IF \E i \in 1..Len(facts), a \in {1, 2} : IsExc(ObjectValue(facts[i], Ends[a]))
    THEN Exc("AttributeError")
    ELSE IF Known(facts) # 2 THEN Exc("IllegalFactChain")
    ELSE IF \E i \in 1..Len(strs) : IsExc(strs[i])
         THEN strs[CHOOSE i \in 1..Len(strs) : IsExc(strs[i]) /\ \A j \in 1..(i - 1) : ~IsExc(strs[j])]
    ELSE Str(JoinLines(Sorted([i \in 1..Len(strs) |-> strs[i].s], 1, <<>>), 1))
fact_chain_seed(facts) == SeedOf(facts, [i \in 1..Len(facts) |-> FactStr(facts[i])])

\* hashlib.sha256(seed.encode("utf8")).hexdigest(): a digest without
\* collisions, written as the text it is the digest of.
Sha256(seed) == "sha256<" \o seed \o ">"
\* "[placeholder[{}]]".format(sha256sum)
Placeholder(sha256sum) == Str("[placeholder[" \o sha256sum \o "]]")

\* obj.data["value"] = placeholder, for the object of fact under attr when
\* its value is "*".
Replaced(fact, attr, placeholder) ==
    IF ObjectValue(fact, attr) = Str("*")
    THEN [fact EXCEPT !.data = Put(fact.data, attr,
            [GetAttr(fact, attr) EXCEPT !.data = Put(GetAttr(fact, attr).data, "value", placeholder)])]
    ELSE fact
\* The fact after the loop of fact_chain: copy.copy(facts) of a tuple is the
\* tuple itself, so the objects changed are those of the caller's facts.
ChainedFact(fact, placeholder) ==
    Replaced(Replaced(fact, "source_object", placeholder), "destination_object", placeholder)

\* The longest tuple of facts that fact_chain is called with.
MaxChain == 2

ObjectDoc(type, value) ==
    Dict(<< <<"type", Dict(<< <<"name", Str(type)>> >>)>>, <<"value", Str(value)>> >>)
SeenIn == <<"type", Dict(<< <<"id", Str("t1")>>, <<"name", Str("seenIn")>> >>)>>
\* The documents a fact is deserialized from: its objects as the strings of
\* a request body, as documents (one way, both ways, with a value that
\* starts with "-", without a type), and the arguments of Act.fact().
RequestBodyDoc ==
    <<SeenIn, <<"value", Str("report")>>, <<"sourceObject", Str("ipv4/127.0.0.1")>>,
      <<"destinationObject", Str("report/abc")>> >>
ResponseDoc ==
    <<SeenIn, <<"value", Str("report")>>, <<"sourceObject", ObjectDoc("ipv4", "127.0.0.1")>>,
      <<"destinationObject", ObjectDoc("report", "abc")>> >>
FactInputs ==
    { [args |-> <<>>, kwargs |-> RequestBodyDoc],
      [args |-> <<>>, kwargs |-> ResponseDoc],
      [args |-> <<>>,
       kwargs |-> <<SeenIn, <<"value", Str("report")>>,
                    <<"sourceObject", ObjectDoc("ipv4", "127.0.0.1")>>,
                    <<"destinationObject", ObjectDoc("report", "abc")>>,
                    <<"bidirectionalBinding", True>> >>],
      [args |-> <<>>,
       kwargs |-> <<SeenIn, <<"value", Str("-")>>,
                    <<"sourceObject", ObjectDoc("ipv4", "127.0.0.1")>>,
                    <<"destinationObject", ObjectDoc("report", "abc")>> >>],
      [args |-> <<>>,
       kwargs |-> << <<"value", Str("report")>>,
                    <<"sourceObject", ObjectDoc("ipv4", "127.0.0.1")>>,
                    <<"destinationObject", ObjectDoc("report", "abc")>> >>],
      [args |-> <<Str("observedIn")>>, kwargs |-> <<>>],
      [args |-> <<Str("seenIn"), Str("report")>>, kwargs |-> <<>>] }
\* The second fact of a chain.
OtherInputs ==
    { << <<"type", Str("memberOf")>>, <<"sourceObject", ObjectDoc("incident", "*")>>,
         <<"destinationObject", ObjectDoc("sector", "energy")>> >>,
      << <<"type", Str("targets")>>, <<"sourceObject", ObjectDoc("incident", "*")>>,
         <<"destinationObject", ObjectDoc("organization", "*")>> >>,
      << <<"type", Str("basename")>>, <<"value", Str("home")>>,
         <<"sourceObject", ObjectDoc("path", "home")>> >> }
\* What source() and destination() are called with: a type and a value, a
\* placeholder, an id, a type alone.
ObjectArgs ==
    { [args |-> <<Str("uri"), Str("u")>>, kwargs |-> <<>>],
      [args |-> <<Str("incident"), Str("*")>>, kwargs |-> <<>>],
      [args |-> <<>>, kwargs |-> << <<"id", Str("00000000-0000-0000-0000-000000000001")>> >>],
      [args |-> <<Str("incident")>>, kwargs |-> <<>>] }

\* e1 = Fact(*args, **kwargs)
MakeFact(args, kwargs) ==
    /\ e1 = None
    /\ e1' = New("Fact", args, kwargs)
    /\ last' = Op("init", "Fact", args, kwargs, "", None, None)
    /\ UNCHANGED <<e2, broken>>
    /\ UNCHANGED others

\* e2 = Fact(**kwargs)
MakeOther(kwargs) ==
    /\ IsEnt(e1) /\ e2 = None
    /\ e2' = New("Fact", <<>>, kwargs)
    /\ last' = Op("init", "Fact", <<>>, kwargs, "", None, None)
    /\ UNCHANGED <<e1, broken>>
    /\ UNCHANGED others

\* e1.source(*args, **kwargs) or e1.destination(*args, **kwargs)
Bind(op, args, kwargs, r) ==
    /\ IsEnt(e1)
    /\ e1' = r.fact
    /\ last' = Op(op, "Fact", args, kwargs, "", r.res, None)
    /\ UNCHANGED <<e2, broken>>
    /\ UNCHANGED others
\* An object of fact has the value fact_chain gave it.
Chained(fact) ==
    \E a \in {1, 2} :
        LET value == ObjectValue(fact, Ends[a])
        IN value.k = "str" /\ StartsWith(value.s, "[placeholder[")
\* The objects of the first fact are bound before the second fact is made
\* and before the fact is in a chain.
Source(args, kwargs) ==
    /\ IsEnt(e1) /\ e2 = None /\ ~Chained(e1)
    /\ Bind("source", args, kwargs, source(e1, args, kwargs))
Destination(args, kwargs) ==
    /\ IsEnt(e1) /\ e2 = None /\ ~Chained(e1)
    /\ Bind("destination", args, kwargs, destination(e1, args, kwargs))

\* str(e1) or str(e2)
StrOf(i) ==
    /\ IsEnt(<<e1, e2>>[i])
    /\ last' = Op("str", "Fact", <<Num(i)>>, <<>>, "", FactStr(<<e1, e2>>[i]), None)
    /\ UNCHANGED <<e1, e2, broken>>
    /\ UNCHANGED others

\* The tuples of facts: each names e1 (1) or e2 (2), possibly more than once.
Chains == UNION { [1..n -> {1, 2}] : n \in 0..MaxChain }
\* fact_chain(*facts) with the seed that fact_chain_seed gave: the facts
\* afterwards, and the chain returned (the tuple it was called with, each
\* fact by its number).
ChainWith(chain, seed) ==
    /\ e1' = IF IsExc(seed) \/ ~(\E i \in 1..Len(chain) : chain[i] = 1) THEN e1
             ELSE ChainedFact(e1, Placeholder(Sha256(seed.s)))
    /\ e2' = IF IsExc(seed) \/ ~(\E i \in 1..Len(chain) : chain[i] = 2) THEN e2
             ELSE ChainedFact(e2, Placeholder(Sha256(seed.s)))
    /\ last' = Op("chain", "Fact", [i \in 1..Len(chain) |-> Num(chain[i])], <<e1, e2>>, "",
                  IF IsExc(seed) THEN seed ELSE List([i \in 1..Len(chain) |-> Num(chain[i])]),
                  None)
    /\ UNCHANGED broken
    /\ UNCHANGED others
FactChain(chain) ==
    /\ \A i \in 1..Len(chain) : IsEnt(<<e1, e2>>[chain[i]])
    /\ ChainWith(chain, fact_chain_seed([i \in 1..Len(chain) |-> <<e1, e2>>[chain[i]]]))

NextFact ==
    \/ \E in \in FactInputs : MakeFact(in.args, in.kwargs)
    \/ \E kwargs \in OtherInputs : MakeOther(kwargs)
    \/ \E in \in ObjectArgs : Source(in.args, in.kwargs)
    \/ \E in \in ObjectArgs : Destination(in.args, in.kwargs)
    \/ \E i \in {1, 2} : StrOf(i)
    \/ \E chain \in Chains : FactChain(chain)

SpecFact == Init /\ [][NextFact]_vars

(***************************************************************************)
(* act.api.utils: the two conversions applied in turn to an identifier     *)
(***************************************************************************)
\* The longest identifier converted, in characters.
MaxNameLen == 5
\* Two letters, a digit and the separator.
NameAlphabet == {"a", "b", "1", "_"}
\* The snake_case identifiers: non-empty segments of lower-case letters and
\* digits, joined by single underscores.
Identifiers ==
    { s \in UNION { [1..n -> NameAlphabet] : n \in 1..MaxNameLen } :
        /\ s[1] # "_" /\ s[Len(s)] # "_"
        /\ \A i \in 1..(Len(s) - 1) : ~(s[i] = "_" /\ s[i + 1] = "_") }

\* camel_to_snake(snake_to_camel(n))
Transcode(n) ==
    /\ last.op = "none"
    /\ last' = Op("transcode", "", n, <<>>, "", CamelToSnakeChars(SnakeToCamelChars(n)),
                  SnakeToCamelChars(n))
    /\ UNCHANGED <<e1, e2, broken>>
    /\ UNCHANGED others

NextNames == \E n \in Identifiers : Transcode(n)

SpecNames == Init /\ [][NextNames]_vars

(***************************************************************************)
(* Fact.add of the two generations: act.api.fact.Fact.add and              *)
(* act.fact.Fact.add (__add_fact).  The facts have no origin and refer to  *)
(* no other fact.                                                          *)
(***************************************************************************)
MaxAdds == 2
MaxAddEntries == 3

AddClasses == {"Fact", "act.fact.Fact"}
\* The entries of the documents the facts are built from.
AddEntries ==
    { SeenIn, <<"value", Str("v")>>,
      <<"sourceObject", ObjectDoc("ipv4", "127.0.0.1")>>,
      <<"sourceObject", Dict(<< <<"id", Str("O1")>> >>)>>,
      <<"destinationObject", ObjectDoc("report", "abc")>> }
AddDocs ==
    UNION { { d \in [1..m -> AddEntries] :
                \A i, j \in 1..m : i < j => d[i][1] # d[j][1] }
            : m \in 1..MaxAddEntries }
\* The data of the backend's response to POST v1/fact.
AddResponses ==
    { << <<"id", Str("F1")>>, SeenIn >>,
      << <<"id", Str("F1")>>, <<"sourceObject", ObjectDoc("ipv4", "127.0.0.1")>> >> }

\* "{}/{}".format(obj.type.name, obj.value), the last line of
\* object_serializer.
TypeAndValue(obj) ==
    IF ~IsEnt(GetAttr(obj, "type")) THEN Exc("AttributeError")
    ELSE Str(Format(GetAttr(GetAttr(obj, "type"), "name")) \o "/"
                \o Format(GetAttr(obj, "value")))
\* object_serializer of act.api.fact: `not obj` is Object.__bool__, false
\* for an object without an id that lacks a type or a value.
object_serializer(obj) ==
    IF ~Truthy(obj) THEN None
    ELSE IF Truthy(GetAttr(obj, "id")) THEN GetAttr(obj, "id")
    ELSE TypeAndValue(obj)
\* object_serializer of act.fact: its Object defines no __bool__, and what
\* it is given may be the string an earlier call stored.
legacy_object_serializer(obj) ==
    IF obj = None THEN None
    ELSE IF ~IsEnt(obj) THEN Exc("AttributeError")
    ELSE IF GetAttr(obj, "id") = None /\ ~IsEnt(GetAttr(obj, "type")) THEN Exc("AttributeError")
    ELSE IF /\ GetAttr(obj, "id") = None /\ GetAttr(GetAttr(obj, "type"), "name") = None
            /\ GetAttr(obj, "value") = None
         THEN None
    ELSE IF Truthy(GetAttr(obj, "id")) THEN GetAttr(obj, "id")
    ELSE TypeAndValue(obj)

\* What act.api.fact.Fact.add raises before its request, or None: lines
\* 570-581.  origin_serializer is given no origin.
BeforeAdd(fact) ==
    IF IsExc(Serialize(fact)) THEN Serialize(fact)
    ELSE IF IsExc(object_serializer(GetAttr(fact, "source_object")))
         THEN object_serializer(GetAttr(fact, "source_object"))
    ELSE IF IsExc(object_serializer(GetAttr(fact, "destination_object")))
         THEN object_serializer(GetAttr(fact, "destination_object"))
    ELSE None

\* x = Fact(**kwargs), of either generation
MakeAdd(cls, kwargs) ==
    /\ e1 = None
    /\ e1' = New(cls, <<>>, kwargs)
    /\ last' = Op("init", cls, <<>>, kwargs, "", None, None)
    /\ UNCHANGED <<e2, broken>>
    /\ UNCHANGED others

\* The request and what follows it, for the fact as it is when the request
\* is sent; pre: the exception raised before the request, or None.
AddStep(fact, doc, ok, pre) ==
    /\ requests' = IF pre = None THEN Append(requests, <<"POST", "v1/fact">>) ELSE requests
    /\ e1' = IF pre = None /\ ok THEN Reload(fact, doc) ELSE fact
    /\ broken' = IF pre = None /\ ok THEN ReloadRaises(fact, doc) ELSE broken
    /\ last' = Op("add", e1.cls, <<>>, doc, "",
                  IF IsExc(pre) THEN pre
                  ELSE IF ~ok THEN Exc("ResponseError")
                  ELSE IF ReloadRaises(fact, doc)
                       THEN Exc(DeserLoop(fact.cls, <<>>, doc, 1).e) ELSE None,
                  Bool(pre = None))
    /\ UNCHANGED <<e2, heap, rs, conf, origin_cache, fact_cache, output, lookups, handled>>

\* e1.add() of act.api.fact; ok: the request is answered, with doc as its
\* data (else request raises ResponseError).
Add(doc, ok) ==
    /\ IsEnt(e1) /\ e1.cls = "Fact" /\ ~broken
    /\ Len(requests) < MaxAdds
    /\ AddStep(e1, doc, ok, BeforeAdd(e1))

\* Lines 391-393 of act.fact: the two objects of the store are replaced by
\* what object_serializer gives for them, the source first.
Serialized(fact, s, d) ==
    IF IsExc(s) THEN [fact |-> fact, raised |-> s]
    ELSE IF IsExc(d) THEN [fact |-> [fact EXCEPT !.data = Put(fact.data, "source_object", s)],
                           raised |-> d]
    ELSE [fact |-> [fact EXCEPT !.data = Put(Put(fact.data, "source_object", s),
                                             "destination_object", d)],
          raised |-> None]
\* e1.add() of act.fact, for a fact that refers to no other fact.
LegacyAdd(doc, ok) ==
    /\ IsEnt(e1) /\ e1.cls = "act.fact.Fact" /\ ~broken
    /\ Len(requests) < MaxAdds
    /\ LET r == Serialized(e1, legacy_object_serializer(GetAttr(e1, "source_object")),
                            legacy_object_serializer(GetAttr(e1, "destination_object")))
       IN AddStep(r.fact, doc, ok, r.raised)

NextAdd ==
    \/ \E cls \in AddClasses : \E kwargs \in AddDocs : MakeAdd(cls, kwargs)
    \/ \E doc \in AddResponses, ok \in BOOLEAN : Add(doc, ok)
    \/ \E doc \in AddResponses, ok \in BOOLEAN : LegacyAdd(doc, ok)

SpecAdd == Init /\ [][NextAdd]_vars

(***************************************************************************)
(* Two callers of handle_fact and origin_map at once.  functools.lru_cache *)
(* looks the key up, calls the function when it is not there, and stores   *)
(* the result afterwards unless the key was stored meanwhile; it holds no  *)
(* lock while the function runs.  lookups holds the calls that are running,*)
(* handled the calls that returned or raised.  Both callers pass equal     *)
(* facts, configured with conf[1], with the same output format and file    *)
(* handle.                                                                 *)
(***************************************************************************)
MaxCalls == 3

Callers == {1, 2}
Cacheds == {"handle_fact", "origin_map"}
RaceCall == HandleCall(FactV, "positional", "json", None)

Running(t) == \E i \in 1..Len(lookups) : lookups[i].caller = t
CallOf(t) == lookups[CHOOSE i \in 1..Len(lookups) : lookups[i].caller = t]
Without(t) == SelectSeq(lookups, LAMBDA call : call.caller # t)
Returned(t, fn, missed, res) == [caller |-> t, fn |-> fn, missed |-> missed, res |-> res]

\* The wrapper's lookup finds the key.
Hit(fn) ==
    IF fn = "handle_fact" THEN Probe(fact_cache, RaceCall.key).status = "hit"
    ELSE Cached(origin_cache, 1)
\* The wrapper after the function returned: the result is stored unless the
\* key is in the cache by now.
StoreTwice(cache, maxsize, key, value, hit) == LruPut(cache, maxsize, key, value)
StoreAbsent(cache, maxsize, key, value, hit) ==
    IF hit THEN cache ELSE LruPut(cache, maxsize, key, value)

\* Caller t calls fn: the lookup of the wrapper.
CallCached(t, fn) ==
    /\ Len(conf) = 1
    /\ ~Running(t)
    /\ Len(handled) + Len(lookups) < MaxCalls
    /\ last' = Op("call", "", <<Num(t)>>, <<>>, fn, None, Bool(~Hit(fn)))
    /\ lookups' = IF Hit(fn) THEN lookups
                  ELSE Append(lookups, [caller |-> t, fn |-> fn, pc |-> "body"])
    /\ handled' = IF Hit(fn) THEN Append(handled, Returned(t, fn, FALSE, None)) ELSE handled
    /\ fact_cache' = IF fn = "handle_fact" /\ Hit(fn)
                     THEN Entries2(TouchAt(fact_cache, Probe(fact_cache, RaceCall.key).at))
                     ELSE fact_cache
    /\ origin_cache' = IF fn = "origin_map" /\ Hit(fn) THEN LruTouch(origin_cache, 1)
                       ELSE origin_cache
    /\ UNCHANGED <<e1, e2, broken, heap, rs, conf, requests, output>>

\* What the body of origin_map gives: lines 345-360.
OriginMapBody(config, ok) ==
    IF ~Truthy(config.act_baseurl) THEN Exc("NotConnected")
    ELSE IF ok THEN None ELSE Exc("ResponseError")

\* The body of the function runs for caller t; ok: its request is answered.
RunWith(t, fn, ok, res) ==
    /\ last' = Op("run", "", <<Num(t)>>, <<>>, fn, res, None)
    /\ requests' =
            IF fn = "handle_fact" /\ Submits(conf[1])
            THEN Append(requests, <<"POST", conf[1].act_baseurl, "v1/fact">>)
            ELSE IF fn = "origin_map" /\ Truthy(conf[1].act_baseurl)
            THEN Append(requests, <<"GET", conf[1].act_baseurl, "v1/origin">>)
            ELSE requests
    /\ output' = IF fn = "handle_fact" /\ Writes(conf[1], RaceCall.output_format)
                 THEN Append(output, <<Str("sys.stdout"), RaceCall.output_format,
                                       Serialize(RaceCall.fact)>>)
                 ELSE output
    /\ lookups' = IF IsExc(res) THEN Without(t)
                  ELSE [i \in 1..Len(lookups) |->
                            IF lookups[i].caller = t THEN [lookups[i] EXCEPT !.pc = "store"]
                            ELSE lookups[i]]
    /\ handled' = IF IsExc(res) THEN Append(handled, Returned(t, fn, TRUE, res)) ELSE handled
    /\ UNCHANGED <<e1, e2, broken, heap, rs, conf, origin_cache, fact_cache>>
Run(t, ok) ==
    /\ Running(t) /\ CallOf(t).pc = "body"
    /\ ok \/ Truthy(conf[1].act_baseurl)
    /\ RunWith(t, CallOf(t).fn, ok,
               IF CallOf(t).fn = "handle_fact"
               THEN HandleBody(conf[1], RaceCall.output_format, ok)
               ELSE OriginMapBody(conf[1], ok))

\* The wrapper stores the result for caller t, and the call returns.
Store(t) ==
    /\ Running(t) /\ CallOf(t).pc = "store"
    /\ last' = Op("store", "", <<Num(t)>>, <<>>, CallOf(t).fn, None, Bool(Hit(CallOf(t).fn)))
    /\ fact_cache' = IF CallOf(t).fn = "handle_fact"
                     THEN StoreAbsent(fact_cache, handle_fact_maxsize, RaceCall.key, None,
                                      Hit("handle_fact"))
                     ELSE fact_cache
    /\ origin_cache' = IF CallOf(t).fn = "origin_map"
                       THEN StoreAbsent(origin_cache, origin_map_maxsize, 1,
                                        Backend(conf[1].act_baseurl), Hit("origin_map"))
                       ELSE origin_cache
    /\ lookups' = Without(t)
    /\ handled' = Append(handled, Returned(t, CallOf(t).fn, TRUE, None))
    /\ UNCHANGED <<e1, e2, broken, heap, rs, conf, requests, output>>

NextRace ==
    \/ \E url \in BaseUrls : Len(conf) = 0 /\ NewConfig(url)
    \/ \E t \in Callers, fn \in Cacheds : CallCached(t, fn)
    \/ \E t \in Callers, ok \in BOOLEAN : Run(t, ok)
    \/ \E t \in Callers : Store(t)

SpecRace == Init /\ [][NextRace]_vars

(***************************************************************************)
(* Equality and hashing of two entities                                    *)
(***************************************************************************)
\* The names of the serializable fields of cls other than id.
ComparedNames(cls) ==
    { SCHEMA(cls)[i].name :
        i \in { j \in 1..Len(SCHEMA(cls)) :
                  SCHEMA(cls)[j].serializer # "False" /\ SCHEMA(cls)[j].name # "id" } }

\* C1: for x, y of one class, x == y raises InvalidData when every
\* serializable non-id field is equal and both ids are non-null and different;
\* it is True when those fields are equal and an id is None or the ids are
\* equal; it is False, without raising, when such a field differs.
C1_EqualityById ==
    last.op = "eq" =>
        LET allEqual == \A n \in ComparedNames(e1.cls) :
                            PyEq(Get(e1.data, n), Get(e2.data, n)) = True
            differs == \E n \in ComparedNames(e1.cls) :
                            PyEq(Get(e1.data, n), Get(e2.data, n)) = False
            xid == Get(e1.data, "id")
            yid == Get(e2.data, "id")
        IN /\ (allEqual /\ xid # None /\ yid # None /\ xid # yid)
                => last.res = Exc("InvalidData")
           /\ (allEqual /\ (xid = None \/ yid = None \/ xid = yid))
                => last.res = True
           /\ differs => last.res = False

\* C2: for two Facts a, b with a == b True, hash(a) and hash(b) are both
\* defined and equal.
C2_HashConsistent ==
    (last.op = "hash" /\ e1.cls = "Fact" /\ PyEq(e1, e2) = True) =>
        /\ ~IsExc(last.res)
        /\ ~IsExc(last.out)
        /\ last.res = last.out

(***************************************************************************)
(* The attribute store                                                     *)
(***************************************************************************)
\* The fields of cls that deserialize keeps in the store: not
\* deserialization-disabled, not flatten, not redirected.
Stored(field) ==
    field.deserializer # "False" /\ ~field.flatten /\ field.deserialize_target = ""

\* C3: after construction, and after any attribute writes and completed
\* reloads, the store has an entry for every declared field that is not
\* deserialization-disabled, flatten or redirected, and none under the name of
\* a field that is.
C3_StoreKeys ==
    (IsEnt(e1) /\ ~broken) =>
        \A i \in 1..Len(SCHEMA(e1.cls)) :
            Has(e1.data, SCHEMA(e1.cls)[i].name) <=> Stored(SCHEMA(e1.cls)[i])

\* An entity with a plain attribute under a redirected name, reloaded from a
\* response that carries the redirected key.
C3_Witness ==
    /\ last.op = "load" /\ ~broken
    /\ e1.cls = "Object"
    /\ Has(e1.attrs, "object_type")
    /\ last.kwargs = << <<"objectType", Str("fqdn")>> >>
    /\ Get(e1.data, "type") = New("ObjectType", <<>>, << <<"name", Str("fqdn")>> >>)

(***************************************************************************)
(* Round trips                                                             *)
(***************************************************************************)
\* C4: for an entity e whose serialize() gives a document, the entity of the
\* same class constructed from that document equals e.
C4_SerializeRoundTrip ==
    (last.op = "roundtrip" /\ ~broken /\ last.res.k = "dict") =>
        /\ IsEnt(last.out)
        /\ PyEq(last.out, e1) = True

\* The keyword names of a repr.
ArgNames(call) == { call.args[i][1] : i \in 1..Len(call.args) }

\* C5: evaluating repr(e) gives an entity r with e == r, and repr lists
\* exactly the fields whose value differs from the declared default and whose
\* serializer is not disabled.
C5_ReprRoundTrip ==
    (last.op = "repr" /\ ~broken) =>
        /\ last.res.k = "call"
        /\ IsEnt(last.out)
        /\ PyEq(e1, last.out) = True
        /\ \A i \in 1..Len(SCHEMA(e1.cls)) :
              LET field == SCHEMA(e1.cls)[i]
              IN field.name \in ArgNames(last.res) <=>
                    /\ field.serializer # "False"
                    /\ PyEq(Get(e1.data, field.name), field.default) # True

(***************************************************************************)
(* Construction and deserialization                                        *)
(***************************************************************************)
\* The last operation deserialized a document, and completed.
Deserialized == last.op \in {"init", "load"} /\ IsEnt(e1) /\ ~broken
\* The entries that operation deserialized.
Input ==
    IF last.op = "init" THEN FoldArgs(last.cls, last.args, last.kwargs, 1) ELSE last.kwargs

\* The field the entry key is stored under, NoField when it is skipped.
TargetOf(cls, key) == get_deserialize_field(cls, camel_to_snake(key))
\* No entry after j is stored under name, and none is flattened.
LastFor(cls, entries, j, name) ==
    \A n \in (j + 1)..Len(entries) :
        TargetOf(cls, entries[n][1]) = NoField
          \/ (TargetOf(cls, entries[n][1]).name # name /\ ~TargetOf(cls, entries[n][1]).flatten)
\* No entry but j is stored under name, and none is flattened.
OnlyFor(cls, entries, j, name) ==
    \A n \in 1..Len(entries) :
        n # j => \/ TargetOf(cls, entries[n][1]) = NoField
                 \/ /\ TargetOf(cls, entries[n][1]).name # name
                    /\ ~TargetOf(cls, entries[n][1]).flatten
Index(entries, key) == CHOOSE j \in 1..Len(entries) : entries[j][1] = key

\* C6 (amended): when a positional and a named argument bind to the same
\* declared field, the positional value replaces the named one: the entity is
\* the one built from the named arguments with that value replaced, and the
\* field stores the deserialized positional value unless another key is
\* stored under the same field.
C6_PositionalWins ==
    (last.op = "init" /\ Len(last.args) >= 1
        /\ Has(last.kwargs, SCHEMA(last.cls)[1].name)) =>
        LET field == SCHEMA(last.cls)[1]
        IN /\ last.res = New(last.cls, <<>>, Put(last.kwargs, field.name, last.args[1]))
           /\ (IsEnt(last.res)
                 /\ OnlyFor(last.cls, last.kwargs, Index(last.kwargs, field.name), field.name))
                => Get(last.res.data, field.name) = FieldDeserialize(field, last.args[1])

\* C6 as claimed: the field stores the named argument's value.
C6_NamedWins ==
    (last.op = "init" /\ Len(last.args) >= 1 /\ IsEnt(last.res)
        /\ Has(last.kwargs, SCHEMA(last.cls)[1].name)
        /\ OnlyFor(last.cls, last.kwargs,
                   Index(last.kwargs, SCHEMA(last.cls)[1].name), SCHEMA(last.cls)[1].name)) =>
        Get(last.res.data, SCHEMA(last.cls)[1].name)
            = FieldDeserialize(SCHEMA(last.cls)[1], Get(last.kwargs, SCHEMA(last.cls)[1].name))

\* Organization("p", name="m")
C6_Witness ==
    /\ last.op = "init" /\ last.cls = "Organization"
    /\ last.args = <<Str("p")>>
    /\ last.kwargs = << <<"name", Str("m")>> >>
    /\ IsEnt(e1) /\ Get(e1.data, "name") = Str("p")

\* The store as a mapping.
AsMap(items) == { items[i] : i \in 1..Len(items) }
\* The entries with the nested document of entry j in its place.
Splice(entries, j) ==
    SubSeq(entries, 1, j - 1) \o entries[j][2].items \o SubSeq(entries, j + 1, Len(entries))

\* C7: a document under a flatten field's key is deserialized into the same
\* store, with the result its entries give at top level, and reading the
\* attribute named after the flatten field raises AttributeError.
C7_Flatten ==
    /\ Deserialized =>
          \A j \in 1..Len(Input) :
              (/\ TargetOf(e1.cls, Input[j][1]) # NoField
               /\ TargetOf(e1.cls, Input[j][1]).flatten
               /\ Input[j][2].k = "dict") =>
                  /\ AsMap(e1.data)
                        = AsMap(DeserLoop(e1.cls, <<>>, Splice(Input, j), 1).items)
                  /\ \A n \in 1..Len(Input[j][2].items) :
                        TargetOf(e1.cls, Input[j][2].items[n][1]) # NoField
                          => Has(e1.data, TargetOf(e1.cls, Input[j][2].items[n][1]).name)
    /\ (last.op = "getattr" /\ get_field(e1.cls, last.attr).flatten)
          => last.res = Exc("AttributeError")

\* Object(object={"value": "w", "type": {...}}).object
C7_Witness ==
    /\ last.op = "getattr" /\ last.attr = "object"
    /\ last.res = Exc("AttributeError")
    /\ Get(e1.data, "value") = Str("w")
    /\ IsEnt(Get(e1.data, "type"))

Declared(cls, entries) ==
    SelectSeq(entries, LAMBDA entry : TargetOf(cls, entry[1]) # NoField)

\* C9: an entry whose key names no declared field is skipped: construction
\* and reload give what they give without the undeclared entries, the same
\* store in the same order or the same exception.
C9_UnknownKeySkipped ==
    /\ last.op = "init" =>
          last.res = New(last.cls, last.args, Declared(last.cls, last.kwargs))
    /\ last.op = "load" =>
          /\ e1.data = DeserLoop(e1.cls, <<>>, Declared(e1.cls, last.kwargs), 1).items
          /\ broken = IsExc(DeserLoop(e1.cls, <<>>, Declared(e1.cls, last.kwargs), 1))

\* Origin(fooBar=None, name="o")
C9_Witness ==
    /\ last.op = "init" /\ last.cls = "Origin"
    /\ last.kwargs = << <<"fooBar", None>>, <<"name", Str("o")>> >>
    /\ IsEnt(e1) /\ Get(e1.data, "name") = Str("o")
    /\ ~Has(e1.data, "foo_bar")

(***************************************************************************)
(* Schema.serialize                                                        *)
(***************************************************************************)
\* C10: Schema.serialize with exclude_none omits a declared field iff its
\* stored value is None or absent or its serializer is disabled; 0, "", False
\* and [] are emitted under the wire key.
C10_ExcludeNone ==
    (last.op = "schema_serialize" /\ last.args[1] = True /\ last.res.k = "dict") =>
        \A i \in 1..Len(SCHEMA(e1.cls)) :
            LET field == SCHEMA(e1.cls)[i]
                key == SerializeTarget(field, last.args[2] = True)
                value == Get(e1.data, field.name)
            IN /\ Has(last.res.items, key)
                    <=> (value # None /\ field.serializer # "False")
               /\ (value # None /\ field.serializer # "False" /\ ~Truthy(value))
                    => Get(last.res.items, key) = value

\* Fact(value="", confidence=0) serialized
C10_Witness ==
    /\ last.op = "schema_serialize" /\ last.args[1] = True
    /\ e1.cls = "Fact"
    /\ last.res.k = "dict"
    /\ Get(last.res.items, "value") = Str("")
    /\ Get(last.res.items, "confidence") = Num(0)
    /\ Get(last.res.items, "bidirectionalBinding") = False

(***************************************************************************)
(* Attribute writes                                                        *)
(***************************************************************************)
\* C11: a write e.attr = value to a declared field name updates the store
\* (the store holds value under attr afterwards and the plain attributes are
\* as before), and a write to an undeclared name sets a plain instance
\* attribute and leaves the store as it was.
C11_WriteDeclared ==
    [][(IsEnt(e1) /\ last'.op = "setattr") =>
          IF get_field(e1.cls, last'.attr) # NoField
          THEN /\ Has(e1'.data, last'.attr)
               /\ Get(e1'.data, last'.attr) = last'.res
               /\ e1'.attrs = e1.attrs
          ELSE /\ e1'.data = e1.data
               /\ Get(e1'.attrs, last'.attr) = last'.res]_vars

(***************************************************************************)
(* Sharing of nested entities and of defaults                              *)
(***************************************************************************)
\* The facts of the heap h.
FactsAt(h) == { a \in 1..Len(h) : IsAt(h, a, "Fact") }
\* The address of the origin the fact at address p refers to.
OriginOf(h, p) == Get(h[p].data, "origin").a

\* C12: every construction of a fact gives it a nested origin that is a new
\* instance, no object the heap already had; and a mutation of the origin
\* reached through one fact leaves the origin every other fact shows as it was.
C12_NoSharing ==
    [][/\ (last'.op = "new" /\ last'.cls = "Fact" /\ heap' # heap) =>
             OriginOf(heap', Len(heap')) > Len(heap)
       /\ (last'.op = "set" /\ heap' # heap) =>
             \A q \in FactsAt(heap) \ {last'.args[1].a} :
                 heap'[OriginOf(heap, q)] = heap[OriginOf(heap, q)]]_vars

\* C12, amended: a nested origin built from a document is a new instance and
\* the objects the heap had are as before; an Origin instance passed to the
\* constructor is stored as it is, the same object; and a mutation of the
\* origin reached through a fact changes that one object and no other, so that
\* another fact shows the change exactly when it holds the same instance.
C12_FreshFromDocuments ==
    [][/\ (last'.op = "new" /\ last'.cls = "Fact" /\ heap' # heap) =>
             /\ SubSeq(heap', 1, Len(heap)) = heap
             /\ IF last'.kwargs[1][2].k = "ref"
                THEN /\ Get(heap'[Len(heap')].data, "origin") = last'.kwargs[1][2]
                     /\ Len(heap') = Len(heap) + 1
                ELSE /\ OriginOf(heap', Len(heap')) = Len(heap) + 1
                     /\ Len(heap') = Len(heap) + 2
       /\ (last'.op = "set" /\ heap' # heap) =>
             /\ \A a \in 1..Len(heap) : a # last'.out.a => heap'[a] = heap[a]
             /\ \A q \in FactsAt(heap) :
                    heap'[OriginOf(heap, q)] # heap[OriginOf(heap, q)]
                        <=> OriginOf(heap, q) = OriginOf(heap, last'.args[1].a)]_vars

\* o = Origin(name="o"); f = Fact(origin=o); g = Fact(origin=o);
\* h = Fact(origin={"name": "o"}); f.origin.name = "W": g and o show "W", h "o".
C12_Witness ==
    /\ last.op = "set" /\ last.out = Ref(2)
    /\ Len(heap) = 6
    /\ IsAt(heap, 2, "Origin") /\ Get(heap[2].data, "name") = Str("W")
    /\ IsAt(heap, 3, "Fact") /\ Get(heap[3].data, "origin") = Ref(2)
    /\ IsAt(heap, 4, "Fact") /\ Get(heap[4].data, "origin") = Ref(2)
    /\ IsAt(heap, 6, "Fact") /\ Get(heap[6].data, "origin") = Ref(5)
    /\ Get(heap[5].data, "name") = Str("o")

\* The entities of src/test/test_schema.py's Fact in the heap h.
TestFactsAt(h) == { a \in 1..Len(h) : IsAt(h, a, "TestFact") }
ObjectsOf(h, t) == Deref(h, Get(h[t].data, "objects"))

C14_Complete ==
    /\ IsResultSet(rs) =>
          (Complete(rs) = True
              <=> Get(rs.response, "size").n >= Get(rs.response, "count").n)
    /\ (last.op = "complete") =>
          (last.res = True <=> Get(rs.response, "size").n >= Get(rs.response, "count").n)

\* size 1, count 2: not complete, also after a bulk configure.
C14_Witness ==
    /\ last.op = "complete" /\ last.res = False
    /\ rs.size = Num(1) /\ rs.count = Num(2)
    /\ Len(rs.data) = 1 /\ Get(rs.data[1].attrs, "config") = Cfg(1)

\* The elements of the data section of a response, deserialized by cls.
Elements(cls, response) == DeserAll(cls, Get(response, "data").items, 1, <<>>)

\* C15: a result set constructed with config=... from a response whose data
\* is a list of documents the constructor accepts is a result set, holds the
\* deserialized elements in response order, and every element has the
\* configuration.
C15_ConfiguredResultSet ==
    (/\ last.op = "resultset" /\ last.kwargs # <<>>
     /\ Get(last.out.items, "data").k = "list"
     /\ ~IsExc(Elements(last.cls, last.out.items))) =>
        /\ IsResultSet(rs)
        /\ Len(rs.data) = Len(Get(last.out.items, "data").items)
        /\ \A i \in 1..Len(rs.data) :
              rs.data[i] = SetAttr(Elements(last.cls, last.out.items).items[i],
                                   "config", last.kwargs[1][2])

\* C16: a bulk apply that returns replaces element i by the result of the
\* operation on element i, for every i, and keeps the length and the
\* counters; length, indexing, iteration, complete, truthiness and the string
\* form change nothing; a new result set holds the deserialized elements in
\* the order of the response, and an iteration yields the elements in order.
C16_BulkApply ==
    [][/\ (last'.op = "call" /\ IsResultSet(rs) /\ last'.res = None) =>
             /\ rs'.data = [i \in 1..Len(rs.data) |->
                               CallOn(rs.data[i], last'.attr, last'.args)]
             /\ rs' = [rs EXCEPT !.data = rs'.data]
       /\ (last'.op \in ResultReads) => rs' = rs
       /\ (last'.op = "iter") => last'.res = List(rs.data)
       /\ (last'.op = "resultset" /\ IsResultSet(rs')) =>
             rs'.data = Elements(last'.cls, last'.out.items).items]_vars

\* Two facts, configured in bulk.
C16_Witness ==
    /\ last.op = "call" /\ last.attr = "configure" /\ last.res = None
    /\ IsResultSet(rs) /\ Len(rs.data) = 2
    /\ last.out.items[1].attrs = <<>> /\ last.out.items[2].attrs = <<>>
    /\ \A i \in 1..2 : rs.data[i] = SetAttr(last.out.items[i], "config", Cfg(1))
    /\ rs.data[1] # rs.data[2]

(***************************************************************************)
(* Origin resolution and the cache of the name map                         *)
(***************************************************************************)
\* The last operation resolved an Origin against a configured backend and
\* the name map, where it was needed, was obtained.
Resolved ==
    /\ last.op = "lookup"
    /\ IsEnt(last.args[1])
    /\ Truthy(conf[last.args[2].a].act_baseurl)
    /\ last.res # Exc("ResponseError")
GivenId == Truthy(GetAttr(last.args[1], "id"))
GivenName == Truthy(GetAttr(last.args[1], "name"))
NameMap == Backend(conf[last.args[2].a].act_baseurl)

\* C17: resolving an origin with optional id and name against the name map M
\* of the backend: id only gives the id and sends no request; name only gives
\* M[name], or OriginDoesNotExist when the name is not in M; both give the id
\* when M[name] is the id and OriginMismatch otherwise; neither gives None.
C17_OriginResolution ==
    Resolved =>
        CASE GivenId /\ ~GivenName ->
                /\ last.res = GetAttr(last.args[1], "id")
                /\ last.out = False
          [] GivenName /\ ~GivenId ->
                IF Has(NameMap, GetAttr(last.args[1], "name"))
                THEN last.res = Get(NameMap, GetAttr(last.args[1], "name"))
                ELSE last.res = Exc("OriginDoesNotExist")
          [] GivenId /\ GivenName ->
                IF Get(NameMap, GetAttr(last.args[1], "name")) = GetAttr(last.args[1], "id")
                THEN last.res = GetAttr(last.args[1], "id")
                ELSE last.res = Exc("OriginMismatch")
          [] OTHER -> last.res = None

\* A name and an id were given and the map has another id for the name.
C17_Witness ==
    /\ Resolved
    /\ GivenId /\ GivenName
    /\ Has(NameMap, GetAttr(last.args[1], "name"))
    /\ last.res = Exc("OriginMismatch")

\* The requests the i-th lookup of the name map sent.
Issued(i) == IF lookups[i].issued THEN 1 ELSE 0

\* C18: the first two lookups of the name map send exactly one request for
\* the origin list when they are made with the same connection configuration
\* (the same act_baseurl), and two when their configurations differ.
C18_OnePerConfiguration ==
    Len(lookups) >= 2 =>
        Issued(1) + Issued(2) = IF lookups[1].url = lookups[2].url THEN 1 ELSE 2

\* C18, amended: a lookup of the name map sends a request exactly when no
\* earlier lookup made with the same Config object obtained the map; the
\* requests sent are those of the lookups that sent one.
C18_OnePerConfigObject ==
    /\ \A i \in 1..Len(lookups) :
          lookups[i].issued <=>
              ~\E j \in 1..(i - 1) :
                  lookups[j].config = lookups[i].config /\ lookups[j].answered
    /\ Len(requests) = Cardinality({i \in 1..Len(lookups) : lookups[i].issued})

\* Two lookups with one Config object sent one request, while a second
\* Config object of the same act_baseurl exists.
C18_Witness ==
    /\ Len(lookups) = 2
    /\ lookups[1].config = lookups[2].config
    /\ lookups[1].issued /\ lookups[1].answered /\ ~lookups[2].issued
    /\ Len(conf) = 2 /\ conf[1].act_baseurl = conf[2].act_baseurl
    /\ last.op = "lookup" /\ last.out = False
    /\ Len(requests) = 1

(***************************************************************************)
(* Duplicate suppression in handle_fact                                    *)
(***************************************************************************)
\* A call that returned handled a fact equal to the one of the call made
\* in this step, with the same output format and file handle.
HandledBefore(call) ==
    \E i \in 1..Len(handled) :
        /\ PyEq(handled[i][1], call[1]) = True
        /\ handled[i][2] = call[2]
        /\ handled[i][3] = call[3]

\* C19: once a fact has been handled successfully, a later handle_fact call
\* with an equal fact and the same output format and file handle neither
\* submits to the backend nor writes output again.
C19_DuplicateSuppressed ==
    [][(last'.op = "handle_fact" /\ HandledBefore(last'.args)) =>
          (requests' = requests /\ output' = output)]_vars

(***************************************************************************)
(* Operations that need an id                                              *)
(***************************************************************************)
\* The id the operation addresses is unset: the entity's own id is None, or
\* for MetaFact.add there is no referenced fact or its id is None.
IdUnset(ent, op) ==
    IF ent.cls = "MetaFact"
    THEN /\ Has(ent.data, "in_reference_to")
         /\ \/ Get(ent.data, "in_reference_to") = None
            \/ /\ IsEnt(Get(ent.data, "in_reference_to"))
               /\ Has(Get(ent.data, "in_reference_to").data, "id")
               /\ Get(Get(ent.data, "in_reference_to").data, "id") = None
    ELSE Has(ent.data, "id") /\ Get(ent.data, "id") = None

\* C20: an operation that addresses the backend by the entity's id (for
\* MetaFact.add, by the referenced fact's id) raises MissingField when that id
\* is unset, sends no request and leaves the attribute store unchanged.
C20_MissingId ==
    [][(IsEnt(e1) /\ last'.op = "byid" /\ IdUnset(e1, last'.attr)) =>
          /\ last'.res = Exc("MissingField")
          /\ requests' = requests
          /\ e1' = e1]_vars

\* MetaFact.add raised MissingField for a referenced fact without an id, with
\* no request sent.
C20_Witness ==
    /\ last.op = "byid" /\ last.attr = "add"
    /\ IsEnt(e1) /\ e1.cls = "MetaFact"
    /\ IsEnt(Get(e1.data, "in_reference_to"))
    /\ IdUnset(e1, "add")
    /\ last.res = Exc("MissingField")
    /\ requests = <<>>

(***************************************************************************)
(* The text of a fact                                                      *)
(***************************************************************************)
\* The fact str was last called on.
Shown == <<e1, e2>>[last.args[1].n]
\* obj has a type with a name and a value, both non-empty strings.
Named(obj) ==
    /\ IsEnt(obj) /\ IsEnt(GetAttr(obj, "type"))
    /\ GetAttr(GetAttr(obj, "type"), "name").k = "str" /\ GetAttr(GetAttr(obj, "type"), "name").s # ""
    /\ GetAttr(obj, "value").k = "str" /\ GetAttr(obj, "value").s # ""
\* "(type/value)" of an object.
Paren(obj) == "(" \o GetAttr(GetAttr(obj, "type"), "name").s \o "/" \o GetAttr(obj, "value").s \o ")"
\* The fact has a named type and two objects with a type and a value.
Complete3(fact) ==
    /\ IsEnt(GetAttr(fact, "type")) /\ GetAttr(GetAttr(fact, "type"), "name").k = "str"
    /\ Named(GetAttr(fact, "source_object")) /\ Named(GetAttr(fact, "destination_object"))
    /\ GetAttr(fact, "value").k \in {"str", "none"}
Arrow(fact) == IF GetAttr(fact, "bidirectional_binding") = True THEN "-" ELSE "->"

\* C21: the fact deserialized from {type: {id: t1, name: seenIn}, value:
\* report, sourceObject: "ipv4/127.0.0.1", destinationObject: "report/abc"}
\* has the str "(ipv4/127.0.0.1) -[seenIn/report]-> (report/abc)"; the str of
\* a fact is "(srcType/srcValue) -[type/value]-> (dstType/dstValue)", with
\* "-" for "->" when the binding is bidirectional.
C21_StrOfRequestBody ==
    last.op = "str" =>
        /\ Shown = New("Fact", <<>>, RequestBodyDoc) =>
                last.res = Str("(ipv4/127.0.0.1) -[seenIn/report]-> (report/abc)")
        /\ (Complete3(Shown) /\ GetAttr(Shown, "value").k = "str") =>
                last.res = Str(Paren(GetAttr(Shown, "source_object")) \o " -["
                               \o GetAttr(GetAttr(Shown, "type"), "name").s \o "/"
                               \o GetAttr(Shown, "value").s \o "]" \o Arrow(Shown) \o " "
                               \o Paren(GetAttr(Shown, "destination_object")))

\* C21, amended: the fact deserialized from the document whose objects are
\* documents ({type: {name: ipv4}, value: "127.0.0.1"} and {type: {name:
\* report}, value: abc}) has the str "(ipv4/127.0.0.1) -[seenIn/report]->
\* (report/abc)"; the str of a fact with a named type and two objects that
\* each have a type and a non-empty value is "(srcType/srcValue) -[type/value]
\* -> (dstType/dstValue)", with "-" for "->" when the binding is
\* bidirectional and without "/value" when the value is empty or starts with
\* "-"; the fact deserialized from the document of the original claim has
\* the str "[seenIn/report]".
C21_StrOfFact ==
    last.op = "str" =>
        /\ Shown = New("Fact", <<>>, ResponseDoc) =>
                last.res = Str("(ipv4/127.0.0.1) -[seenIn/report]-> (report/abc)")
        /\ Shown = New("Fact", <<>>, RequestBodyDoc) => last.res = Str("[seenIn/report]")
        /\ Complete3(Shown) =>
                last.res = Str(Paren(GetAttr(Shown, "source_object")) \o " -["
                               \o GetAttr(GetAttr(Shown, "type"), "name").s
                               \o (IF GetAttr(Shown, "value").k = "none"
                                      \/ GetAttr(Shown, "value").s = ""
                                      \/ SubSeq(GetAttr(Shown, "value").s, 1, 1) = "-"
                                   THEN "" ELSE "/" \o GetAttr(Shown, "value").s)
                               \o "]" \o Arrow(Shown) \o " "
                               \o Paren(GetAttr(Shown, "destination_object")))
\* The str of a fact with a bidirectional binding was taken.
C21_Witness ==
    /\ last.op = "str" /\ Complete3(Shown)
    /\ GetAttr(Shown, "bidirectional_binding") = True
    /\ last.res = Str("(ipv4/127.0.0.1) -[seenIn/report]- (report/abc)")

(***************************************************************************)
(* The round trip of an identifier                                         *)
(***************************************************************************)
\* The index of the first character of every segment of n after the first.
Starts(n) == { i \in 2..Len(n) : n[i - 1] = "_" }
\* The index of the last character of the segment of n that starts at i.
SegmentEnd(n, i) ==
    IF \E j \in i..Len(n) : n[j] = "_"
    THEN (CHOOSE j \in i..Len(n) : n[j] = "_" /\ \A m \in i..(j - 1) : n[m] # "_") - 1
    ELSE Len(n)
\* Every segment of n after the first starts with a letter, has no letter
\* after a digit, and has two characters or more unless it is the last.
Restorable(n) ==
    \A i \in Starts(n) :
        /\ IsLower(n[i])
        /\ \A j \in i..(SegmentEnd(n, i) - 1) : ~(n[j] \in Digits /\ IsLower(n[j + 1]))
        /\ SegmentEnd(n, i) = i => SegmentEnd(n, i) = Len(n)

FactsBefore == [i \in 1..Len(last.args) |-> last.kwargs[last.args[i].n]]
FactsAfter == [i \in 1..Len(last.args) |-> <<e1, e2>>[last.args[i].n]]
\* The objects of the facts: <<i, a>> is the source (a = 1) or the
\* destination (a = 2) of the fact at i.
ChainObjects(facts) ==
    { p \in (1..Len(facts)) \X {1, 2} : IsEnt(GetAttr(facts[p[1]], Ends[p[2]])) }
ValueAt(facts, p) == GetAttr(GetAttr(facts[p[1]], Ends[p[2]]), "value")
KnownObjects(facts) == { p \in ChainObjects(facts) : ValueAt(facts, p) # Str("*") }
Reversed(s) == [i \in 1..Len(s) |-> s[Len(s) + 1 - i]]

\* C23: fact_chain(*facts), when the facts hold exactly two objects whose
\* value is not "*", returns as many facts as it was given, none with an
\* object of value "*", every placeholder replaced by one and the same
\* "[placeholder[<hash>]]", and the hash is that of the facts in any order;
\* otherwise it raises IllegalFactChain and no fact is modified.
C23_FactChain ==
    last.op = "chain" =>
        IF Cardinality(KnownObjects(FactsBefore)) = 2
        THEN /\ last.res.k = "list" /\ Len(last.res.items) = Len(last.args)
             /\ KnownObjects(FactsAfter) = ChainObjects(FactsAfter)
             /\ \A p, q \in ChainObjects(FactsBefore) \ KnownObjects(FactsBefore) :
                    /\ ValueAt(FactsAfter, p) = ValueAt(FactsAfter, q)
                    /\ StartsWith(ValueAt(FactsAfter, p).s, "[placeholder[")
             /\ fact_chain_seed(Reversed(FactsBefore)) = fact_chain_seed(FactsBefore)
        ELSE last.res = Exc("IllegalFactChain") /\ <<e1, e2>> = last.kwargs

\* C30: fact_chain does not modify the facts it is given, so a second call
\* with the same two or more facts, some with placeholders, succeeds and
\* gives the placeholders the values the first call gave them.
C30_Repeatable ==
    (/\ last.op = "chain" /\ last.res.k = "list" /\ Len(last.args) >= 2
     /\ KnownObjects(FactsBefore) # ChainObjects(FactsBefore)) =>
        /\ <<e1, e2>> = last.kwargs
        /\ ~IsExc(fact_chain_seed(FactsAfter))
        /\ fact_chain_seed(FactsAfter) = fact_chain_seed(FactsBefore)

(***************************************************************************)
(* Equality of two entities without fields                                 *)
(***************************************************************************)
\* C24: x == y for two instances of a subclass of ActBase that declares no
\* fields raises NotImplementedError.
C24_NotImplemented ==
    (last.op = "eq" /\ e1.cls = "Child") => last.res = Exc("NotImplementedError")

(***************************************************************************)
(* The size of the cache of origin_map                                     *)
(***************************************************************************)
\* The last call was origin_map(conf[1]), and not the first one.
LookedUpAgain ==
    /\ last.op = "origin_map" /\ last.args = <<Cfg(1)>>
    /\ Len(requests) > (IF last.out = True THEN 1 ELSE 0)

\* C25: once the origin map was fetched for a configuration, no later
\* lookup with it sends a request, however many other configurations were
\* looked up in between: the cache never evicts.
C25_NeverEvicted == LookedUpAgain => last.out = False

\* C25, amended: once the origin map was fetched for a Config object, a
\* later lookup with that object sends no request when fewer than 128 other
\* Config objects were looked up since the last lookup with it, and sends
\* one when 128 or more were: the cache holds the 128 most recently used.
C25_EvictedAfterMaxsize ==
    LookedUpAgain => (last.out = True <=> Len(last.kwargs) >= origin_map_maxsize)
\* The map was fetched again for conf[1], after 128 other Config objects.
C25_Witness ==
    /\ LookedUpAgain /\ last.out = True
    /\ Len(last.kwargs) = origin_map_maxsize
    /\ Len(requests) = origin_map_maxsize + 2

(***************************************************************************)
(* Object bindings that exist already                                      *)
(***************************************************************************)
\* The bindings of the list asked for that equal none of the existing ones.
\* The bindings asked for that no existing binding equals field by field.
NotExisting(existing, asked) ==
    SelectSeq(asked, LAMBDA b : ~\E i \in 1..Len(existing) : existing[i] = b)
\* The object bindings a fact type has.
BindingsOf(ent) ==
    IF GetAttr(ent, "relevant_object_bindings").k = "list"
    THEN GetAttr(ent, "relevant_object_bindings").items ELSE <<>>

\* C26: FactType.add_object_bindings on a fact type with an id and a list of
\* object bindings sends a PUT request when a binding asked for equals none
\* of the existing ones; when every binding asked for exists, it sends no
\* request, leaves the attribute store as it is and returns the fact type
\* without raising.
C26_ExistingExcluded ==
    [][(/\ last'.op = "byid" /\ last'.attr = "add_object_bindings"
        /\ IsEnt(e1) /\ e1.cls = "FactType" /\ ~broken
        /\ Truthy(GetAttr(e1, "id"))
        /\ GetAttr(e1, "relevant_object_bindings").k = "list") =>
            IF NotExisting(BindingsOf(e1), last'.args[1].items) = <<>>
            THEN requests' = requests /\ e1' = e1 /\ last'.res = None
            ELSE /\ Len(requests') = Len(requests) + 1
                 /\ requests'[Len(requests')] = <<"PUT", "FactType", GetAttr(e1, "id"), "">>]_vars

\* C28: Fact.source and Fact.destination called with neither an object id nor
\* both an object type and an object value raise MissingField and leave the
\* fact as it was.
C28_FailedBindUnchanged ==
    [][(last'.op \in {"source", "destination"} /\ last'.res = Exc("MissingField"))
            => e1' = e1]_vars

\* C27: Fact.add of either generation sends at most one request, and when
\* the request fails the error is raised with the attribute store of the
\* fact as it was before the call.
C27_FailedAddKeepsStore ==
    [][last'.op = "add" =>
            /\ Len(requests') <= Len(requests) + 1
            /\ (last'.out = True /\ last'.res = Exc("ResponseError")) => e1' = e1]_vars

\* The requests and the lines written by the bodies of fn.
Sent(fn) ==
    IF fn = "handle_fact"
    THEN Len(SelectSeq(requests, LAMBDA r : r[1] = "POST")) + Len(output)
    ELSE Len(SelectSeq(requests, LAMBDA r : r[1] = "GET"))
\* The calls of fn that did not find the key and whose body has run.
Missed(fn) ==
    Len(SelectSeq(lookups, LAMBDA call : call.fn = fn /\ call.pc = "store"))
        + Len(SelectSeq(handled, LAMBDA call : call.fn = fn /\ call.missed
                                                /\ call.res # Exc("NotConnected")))
NoneRaised == \A i \in 1..Len(handled) : handled[i].res = None
OneEntry(cache) == \A i, j \in 1..Len(cache) : cache[i][1] = cache[j][1] => i = j

====
